---- MODULE Spec2Model ----
(***************************************************************************)
(* Insurance Agency MCP server (MyMCP / InsuranceMCP): the two upstream    *)
(* clients callNowCertsAPI and callCloseAPI, and the tool handlers that    *)
(* compose their calls into reports.                                       *)
(*                                                                         *)
(* A handler is an async function: it runs until its next await, so every  *)
(* action below is one such run.  The upstream (status, body, transport    *)
(* failure of every request) is the environment and is chosen freely.      *)
(***************************************************************************)
EXTENDS Integers, Sequences, FiniteSets, TLC

\* Longest data array an upstream response carries.
MaxRecs == 2
\* Largest number of claims a profile or a policy is scored with.
MaxClaims == 7
\* Longest collection a helper method is applied to.
MaxItems == 3
\* Number of fields of a parameter object handed to a client directly.
MaxParams == 2

(***************************************************************************)
(* JavaScript values that occur as parameter values.                       *)
(***************************************************************************)
Undefined == [t |-> "undefined"]
Null == [t |-> "null"]
Bool(b) == [t |-> "bool", v |-> b]
Num(n) == [t |-> "num", v |-> n]
Str(s) == [t |-> "str", v |-> s]

Digits == <<"0", "1", "2", "3", "4", "5", "6", "7", "8", "9">>

RECURSIVE NumToString(_)
NumToString(n) ==
    IF n < 10 THEN Digits[n + 1]
    ELSE NumToString(n \div 10) \o Digits[(n % 10) + 1]

\* value.toString() of a value that is neither undefined nor null.
JsToString(x) ==
    CASE x.t = "bool" -> (IF x.v THEN "true" ELSE "false")
      [] x.t = "num" -> NumToString(x.v)
      [] x.t = "str" -> x.v

\* Truthiness of a value (if (value), value || d).
Truthy(x) ==
    CASE x.t = "undefined" -> FALSE
      [] x.t = "null" -> FALSE
      [] x.t = "bool" -> x.v
      [] x.t = "num" -> x.v # 0
      [] x.t = "str" -> x.v # ""

\* Math.min(a, b)
Min(a, b) == IF a < b THEN a ELSE b

(***************************************************************************)
(* Query composition.  A parameter object is the sequence of its entries   *)
(* <<key, value>> in insertion order (Object.entries).                     *)
(***************************************************************************)
Present_truthy(x) == Truthy(x)

\* value !== undefined && value !== null
Present(x) == x.t # "undefined" /\ x.t # "null"

\* The entries appended to the URLSearchParams, in order.
RECURSIVE Compose(_)
Compose(params) ==
    IF params = <<>> THEN <<>>
    ELSE LET e == Head(params) IN
         (IF Present(e[2]) THEN <<(<<e[1], JsToString(e[2])>>)>> ELSE <<>>)
             \o Compose(Tail(params))

\* application/x-www-form-urlencoded form of the strings that occur here.
UrlEncode(s) ==
    CASE s = "a b" -> "a+b"
      [] OTHER -> s

\* URLSearchParams.toString()
RECURSIVE QueryString(_)
QueryString(entries) ==
    IF entries = <<>> THEN ""
    ELSE LET e == Head(entries)
             rest == QueryString(Tail(entries))
         IN  UrlEncode(e[1]) \o "=" \o UrlEncode(e[2])
                 \o (IF rest = "" THEN "" ELSE "&" \o rest)

NowCertsUrl(endpoint, params) ==
    LET qs == QueryString(Compose(params)) IN
    "https://api.nowcerts.com/v1/" \o endpoint
        \o (IF qs # "" THEN "?" \o qs ELSE "")

\* endpoint.includes('?') is false for every endpoint the handlers pass.
CloseUrl(endpoint, params) ==
    LET qs == QueryString(Compose(params)) IN
    "https://api.close.com/api/v1/" \o endpoint
        \o (IF qs # "" THEN "?" \o qs ELSE "")

RefreshUrl == "https://api.nowcerts.com/v1/auth/refresh"

\* btoa(s): the base64 text of s, kept symbolic.
Btoa(s) == "base64(" \o s \o ")"

(***************************************************************************)
(* The upstream: records, response bodies, responses.                      *)
(***************************************************************************)
\* A record is an opaque mapping; a field may be missing.
Has(r, f) == f \in DOMAIN r
Get(r, f, d) == IF f \in DOMAIN r THEN r[f] ELSE d

R1 == [id |-> "r1", customer_id |-> "C100", status |-> "active", type |-> "auto",
       premium_amount |-> 100, expiration_date |-> "2026-12-31", contacts |-> 2]
R2 == [id |-> "r2", status |-> "open", amount |-> 40, lead_id |-> "r1", value |-> 12000]

\* The arrays the upstream answers with: the empty one, and the first MaxRecs
\* records of R1, R2, R1, ...
RecAt(i) == IF i % 2 = 1 THEN R1 ELSE R2
Arrays == {<<>>, [i \in 1 .. MaxRecs |-> RecAt(i)]}

\* The `data` member of a parsed body: missing, an array, or one record.
NoData == [shape |-> "absent"]
DataArray(items) == [shape |-> "array", items |-> items]
DataObject(r) == [shape |-> "object", rec |-> r]
Datas ==
    {NoData, DataObject(R1)} \cup {DataArray(q) : q \in Arrays}

\* A response body: text that is no JSON, the JSON value null, or a JSON
\* object with the members the code reads (data; access_token on refresh).
Unparsable == [kind |-> "unparsable"]
JsonNull == [kind |-> "null"]
JsonObject(data, token) == [kind |-> "object", data |-> data, access_token |-> token]
GetBodies == {Unparsable, JsonNull} \cup {JsonObject(d, Undefined) : d \in Datas}
RefreshBodies ==
    {Unparsable, JsonNull, JsonObject(NoData, Undefined), JsonObject(NoData, Str("tok_new"))}

StatusText(status) ==
    CASE status = 200 -> "OK"
      [] status = 401 -> "Unauthorized"
      [] status = 500 -> "Internal Server Error"

\* fetch() rejects (transport failure), or resolves to a response.  The body of
\* a response that is not ok is never read, so one body stands for all.
Throw == [k |-> "throw"]
Resp(status, body) ==
    [k |-> "resp", status |-> status, statusText |-> StatusText(status), body |-> body]
Ok(r) == r.status >= 200 /\ r.status <= 299
GetResponses ==
    {Throw, Resp(401, Unparsable), Resp(500, Unparsable)}
        \cup {Resp(200, b) : b \in GetBodies}
RefreshResponses ==
    {Throw, Resp(401, Unparsable), Resp(500, Unparsable)}
        \cup {Resp(200, b) : b \in RefreshBodies}

\* `${x}` in a template literal.
Template(x) ==
    CASE x.t = "undefined" -> "undefined"
      [] x.t = "null" -> "null"
      [] OTHER -> JsToString(x)

(***************************************************************************)
(* One upstream call (callNowCertsAPI / callCloseAPI) in flight.           *)
(*   st    "get1" | "refresh" | "get2": the await it is suspended at;      *)
(*         "ok" | "err": it has returned val / thrown err                  *)
(*   sent  the requests it has issued, got the responses it has received   *)
(***************************************************************************)
NoCall == [st |-> "none"]

Call(api, endpoint, params, st, sent, err) ==
    [st |-> st, api |-> api, endpoint |-> endpoint, params |-> params,
     query |-> Compose(params), sent |-> sent, got |-> <<>>,
     val |-> JsonNull, err |-> err]

BearerGet(url, token) == [method |-> "GET", url |-> url, auth |-> "Bearer " \o token]
BasicGet(url, key) == [method |-> "GET", url |-> url, auth |-> "Basic " \o Btoa(key \o ":")]
RefreshPost(refreshToken) ==
    [method |-> "POST", url |-> RefreshUrl, auth |-> "", refresh_token |-> refreshToken]

RefreshFailedMsg == "NowCerts token expired and refresh failed."
FetchFailedMsg == "TypeError: fetch failed"
JsonFailedMsg == "SyntaxError: Unexpected token in JSON"
NullReadMsg == "TypeError: Cannot read properties of null"
NotArrayMsg == "TypeError: is not a function"

\* throw new Error(msg)
Threw_swallow(c, msg) == [c EXCEPT !.st = "ok", !.val = JsonObject(NoData, Undefined)]

Threw(c, msg) == [c EXCEPT !.st = "err", !.err = msg]

\* callNowCertsAPI up to its first await.
callNowCertsAPI(e, endpoint, params) ==
    IF e.NOWCERTS_ACCESS_TOKEN = ""
    THEN Call("nowcerts", endpoint, params, "err", <<>>, "NOWCERTS_ACCESS_TOKEN not configured")
    ELSE Call("nowcerts", endpoint, params, "get1",
              <<BearerGet(NowCertsUrl(endpoint, params), e.NOWCERTS_ACCESS_TOKEN)>>, "")

\* callCloseAPI up to its await.
callCloseAPI(e, endpoint, params) ==
    IF e.CLOSE_API_KEY = ""
    THEN Call("close", endpoint, params, "err", <<>>, "CLOSE_API_KEY not configured")
    ELSE Call("close", endpoint, params, "get1",
              <<BasicGet(CloseUrl(endpoint, params), e.CLOSE_API_KEY)>>, "")

\* The error names the upstream only.
ApiErrorMsg_bare(api, r) ==
    IF api = "nowcerts" THEN "NowCerts API error: " ELSE "Close CRM API error: "

ApiErrorMsg(api, r) ==
    (IF api = "nowcerts" THEN "NowCerts API error: " ELSE "Close CRM API error: ")
        \o NumToString(r.status) \o " " \o r.statusText

\* if (!response.ok) throw ...; return await response.json();
Settle_expired(c, r) ==
    IF ~Ok(r) THEN Threw(c, IF r.status = 401 THEN RefreshFailedMsg ELSE ApiErrorMsg(c.api, r))
    ELSE IF r.body.kind = "unparsable" THEN Threw(c, JsonFailedMsg)
    ELSE [c EXCEPT !.st = "ok", !.val = r.body]

Settle(c, r) ==
    IF ~Ok(r) THEN Threw(c, ApiErrorMsg(c.api, r))
    ELSE IF r.body.kind = "unparsable" THEN Threw(c, JsonFailedMsg)
    ELSE [c EXCEPT !.st = "ok", !.val = r.body]

\* The Authorization header of the retry.
RetryAuth_stale(e, refreshData) == e.NOWCERTS_ACCESS_TOKEN

RetryAuth(e, refreshData) == Template(refreshData.access_token)

\* The first GET of callNowCertsAPI has settled.
OnFirstResponse_norefresh(e, c, r) ==
    LET c1 == [c EXCEPT !.got = Append(@, r)] IN
    IF r.k = "throw" THEN Threw(c1, FetchFailedMsg)
    ELSE Settle(c1, r)

\* A call that observes a 401 waits for a refresh made elsewhere.
OnFirstResponse_wait(e, c, r) ==
    LET c1 == [c EXCEPT !.got = Append(@, r)] IN
    IF r.k = "throw" THEN Threw(c1, FetchFailedMsg)
    ELSE IF r.status = 401 /\ e.NOWCERTS_REFRESH_TOKEN # ""
    THEN [c1 EXCEPT !.st = "wait"]
    ELSE Settle(c1, r)

OnFirstResponse(e, c, r) ==
    LET c1 == [c EXCEPT !.got = Append(@, r)] IN
    IF r.k = "throw" THEN Threw(c1, FetchFailedMsg)
    ELSE IF r.status = 401 /\ e.NOWCERTS_REFRESH_TOKEN # ""
    THEN [c1 EXCEPT !.st = "refresh",
                    !.sent = Append(@, RefreshPost(e.NOWCERTS_REFRESH_TOKEN))]
    ELSE Settle(c1, r)

\* The refresh POST has settled: inside try { ... } catch (refreshError).
OnRefreshResponse_retry(e, c, r) ==
    LET c1 == [c EXCEPT !.got = Append(@, r)] IN
    [c1 EXCEPT !.st = "get2",
               !.sent = Append(@, BearerGet(c.sent[1].url, e.NOWCERTS_ACCESS_TOKEN))]

OnRefreshResponse(e, c, r) ==
    LET c1 == [c EXCEPT !.got = Append(@, r)] IN
    IF r.k = "throw" THEN Threw(c1, RefreshFailedMsg)
    ELSE IF ~Ok(r) THEN Threw(c1, RefreshFailedMsg)
    ELSE IF r.body.kind # "object" THEN Threw(c1, RefreshFailedMsg)
    ELSE [c1 EXCEPT !.st = "get2",
                    !.sent = Append(@, BearerGet(c.sent[1].url, RetryAuth(e, r.body)))]

\* The retried GET has settled; its await is still inside the try block.
OnRetryResponse_again(e, c, r) ==
    LET c1 == [c EXCEPT !.got = Append(@, r)] IN
    IF r.k = "throw" THEN Threw(c1, RefreshFailedMsg)
    ELSE IF r.status = 401
    THEN [c1 EXCEPT !.st = "refresh",
                    !.sent = Append(@, RefreshPost(e.NOWCERTS_REFRESH_TOKEN))]
    ELSE Settle(c1, r)

OnRetryResponse(e, c, r) ==
    LET c1 == [c EXCEPT !.got = Append(@, r)] IN
    IF r.k = "throw" THEN Threw(c1, RefreshFailedMsg)
    ELSE Settle(c1, r)

\* The GET of callCloseAPI has settled.
OnCloseResponse(c, r) ==
    LET c1 == [c EXCEPT !.got = Append(@, r)] IN
    IF r.k = "throw" THEN Threw(c1, FetchFailedMsg)
    ELSE Settle(c1, r)

Done(c) == c.st \in {"ok", "err"}

(***************************************************************************)
(* State.                                                                  *)
(***************************************************************************)
VARIABLES
    env,      \* this.props.env: the configured credentials ("" when not set)
    inv,      \* the tool invocation being handled: [tool, args], or NoInv
    hpc,      \* the await the handler is suspended at
    loc,      \* the handler's local variables
    tasks,    \* the callbacks of the handler's Promise.all, by index
    calls,    \* the upstream calls in flight: 0 the handler's own, i of task i
    fetches,  \* the upstream calls begun in this invocation, in order
    result,   \* what the handler returned to the gateway
    issued    \* what a direct caller of the client has seen issued: "none",
              \* or an access token that is "fresh" (within its lifetime less
              \* the margin) or "expired"

vars == <<env, inv, hpc, loc, tasks, calls, fetches, result, issued>>

Slots == 0 .. MaxRecs
TaskIds == 1 .. MaxRecs

NoInv == [tool |-> "none"]
NoResult == [kind |-> "none"]
NoLoc == [at |-> "none"]
NoTask == [pc |-> "none"]

Envs ==
    [NOWCERTS_ACCESS_TOKEN : {"", "tok_cfg"},
     NOWCERTS_REFRESH_TOKEN : {"", "rt_cfg"},
     CLOSE_API_KEY : {"", "key_cfg"}]

Init ==
    /\ env \in Envs
    /\ inv = NoInv
    /\ hpc = "idle"
    /\ loc = NoLoc
    /\ tasks = [i \in TaskIds |-> NoTask]
    /\ calls = [s \in Slots |-> NoCall]
    /\ fetches = <<>>
    /\ result = NoResult
    /\ issued = "none"

Fetch(c) == [api |-> c.api, endpoint |-> c.endpoint, query |-> c.query]

(***************************************************************************)
(* Tool handlers.  A handler runs from one await to the next; when it      *)
(* returns, its last upstream call stays in slot 0 until the gateway has   *)
(* taken the result (Return).                                              *)
(***************************************************************************)
\* The text of a result: the catch block's `Error ...: ${error.message}`, or
\* a heading followed by JSON.stringify of a report.
ErrorText(prefix, msg) == [form |-> "error", head |-> prefix, message |-> msg]
ReportText(head, json) == [form |-> "report", head |-> head, json |-> json]

\* return { content: [{ type: "text", text }] }
ToolResult(text) == [kind |-> "result", content |-> <<[type |-> "text", text |-> text]>>]

\* The handler's promise rejects: the exception reaches the gateway.
Rejects(msg) == [kind |-> "thrown", error |-> msg]

ErrorPrefix(tool) ==
    CASE tool = "get_customer_profile" -> "Error retrieving customer profile: "
      [] tool = "search_customers_advanced" -> "Error searching customers: "
      [] tool = "get_policy_details" -> "Error retrieving policy details: "
      [] tool = "get_renewals_report" -> "Error generating renewals report: "
      [] tool = "get_claims_dashboard" -> "Error generating claims dashboard: "
      [] tool = "get_sales_pipeline" -> "Error generating sales pipeline: "
      [] tool = "get_nowcerts_policies" -> "Error retrieving policies: "
      [] tool = "get_nowcerts_customers" -> "Error retrieving customers: "
      [] tool = "get_close_leads" -> "Error retrieving leads: "
      [] tool = "get_close_contacts" -> "Error retrieving contacts: "

\* catch (error) { return { content: [{ type: "text", text: `Error ...` }] } }
Catch_rethrow(tool, msg) == Rejects(msg)

Catch(tool, msg) == ToolResult(ErrorText(ErrorPrefix(tool), msg))

\* x.data || []
OrEmpty(d) == IF d.shape = "absent" THEN DataArray(<<>>) ELSE d

\* x.data?.length || 0
LengthOrZero(d) == IF d.shape = "array" THEN Len(d.items) ELSE 0

\* An array method (reduce, slice, filter, find) exists on the value.
IsArray(d) == d.shape = "array"

RECURSIVE SumOf(_, _)
SumOf(items, f) ==
    IF items = <<>> THEN 0 ELSE Get(Head(items), f, 0) + SumOf(Tail(items), f)

\* The date of `months` months ago as YYYY-MM-DD; the clock is not modelled,
\* the text names the offset.
getDateMonthsAgo(months) == "today-" \o NumToString(months) \o "m"

\* Twice the risk score: 5 + min(0.5 * claims, 3), clamped to [1, 10].
calculateRiskScore_uncapped(profile) ==
    LET n == LengthOrZero(profile.claims) IN Min(10 + n, 20)

calculateRiskScore(profile) ==
    LET n == LengthOrZero(profile.claims)
        score2 == IF n > 0 THEN 10 + Min(n, 6) ELSE 10
    IN  Min(IF score2 > 2 THEN score2 ELSE 2, 20)

\* (profile.policies || []).reduce(sum of premium_amount) * 5
calculateLifetimeValue_annual(profile) == SumOf(profile.policies.items, "premium_amount")

calculateLifetimeValue(profile) == SumOf(profile.policies.items, "premium_amount") * 5

\* The handler returns res.
Finish(res) ==
    /\ result' = res
    /\ hpc' = "returned"

\* The handler awaits a new upstream call c.
Await(pc, c) ==
    /\ hpc' = pc
    /\ calls' = [calls EXCEPT ![0] = c]
    /\ fetches' = Append(fetches, Fetch(c))
    /\ result' = result

\* The handler can go on: the call it awaits has settled, or it is at
\* Promise.all (whose callbacks must all have returned: AllSettled).
Running(tool) ==
    /\ inv.tool = tool
    /\ result = NoResult
    /\ Done(calls[0]) \/ hpc = "all"

(***************************************************************************)
(* get_customer_profile                                                    *)
(***************************************************************************)
ProfileStages == <<"customer", "policies", "claims", "quotes">>

ProfileEnabled(args, stage) ==
    CASE stage = "policies" -> args.include_policies
      [] stage = "claims" -> args.include_claims
      [] stage = "quotes" -> args.include_quotes
      [] OTHER -> TRUE

ProfileCall(e, args, stage) ==
    CASE stage = "customer" ->
            callNowCertsAPI(e, "customers", <<(<<"customer_id", Str(args.customer_id)>>)>>)
      [] stage = "policies" ->
            callNowCertsAPI(e, "policies",
                <<(<<"customer_id", Str(args.customer_id)>>), (<<"limit", Num(50)>>)>>)
      [] stage = "claims" ->
            callNowCertsAPI(e, "claims",
                <<(<<"customer_id", Str(args.customer_id)>>),
                  (<<"date_from", Str(getDateMonthsAgo(args.date_range_months))>>),
                  (<<"limit", Num(25)>>)>>)
      [] stage = "quotes" ->
            callNowCertsAPI(e, "quotes",
                <<(<<"customer_id", Str(args.customer_id)>>),
                  (<<"date_from", Str(getDateMonthsAgo(args.date_range_months))>>),
                  (<<"limit", Num(15)>>)>>)

\* Every stage follows, whatever the flags.
NextProfileStage_all(args, k) == IF k < Len(ProfileStages) THEN k + 1 ELSE 0

\* The index of the first enabled stage after stage k (0: none is left).
NextProfileStage(args, k) ==
    LET later == {j \in (k + 1) .. Len(ProfileStages) : ProfileEnabled(args, ProfileStages[j])}
    IN  IF later = {} THEN 0 ELSE CHOOSE j \in later : \A i \in later : j <= i

NewProfile(customer_info) ==
    [customer_info |-> customer_info, policies |-> DataArray(<<>>),
     claims |-> DataArray(<<>>), quotes |-> DataArray(<<>>),
     risk_score |-> Null, lifetime_value |-> Null]

\* The profile after the call of stage k returned body val.
ProfileWith(profile, k, val) ==
    CASE k = 1 -> NewProfile(val.data)
      [] k = 2 -> [profile EXCEPT !.policies = OrEmpty(val.data)]
      [] k = 3 -> [profile EXCEPT !.claims = OrEmpty(val.data)]
      [] k = 4 -> [profile EXCEPT !.quotes = OrEmpty(val.data)]

ProfileHead(args, profile) ==
    "Customer Profile for "
        \o (IF profile.customer_info.shape = "object" /\ Has(profile.customer_info.rec, "name")
            THEN profile.customer_info.rec.name ELSE args.customer_id)
        \o ":"

get_customer_profile ==
    /\ Running("get_customer_profile")
    /\ LET c == calls[0]
           k == loc.stage
           tool == inv.tool
       IN  IF c.st = "err"
           THEN Finish(Catch(tool, c.err)) /\ UNCHANGED <<loc, calls, fetches>>
           ELSE IF c.val.kind = "null"
           THEN Finish(Catch(tool, NullReadMsg)) /\ UNCHANGED <<loc, calls, fetches>>
           ELSE LET profile == ProfileWith(loc.profile, k, c.val)
                    n == NextProfileStage(inv.args, k)
                IN  IF n # 0
                    THEN /\ loc' = [stage |-> n, profile |-> profile]
                         /\ Await(ProfileStages[n], ProfileCall(env, inv.args, ProfileStages[n]))
                    ELSE IF ~IsArray(profile.policies)
                    THEN /\ loc' = [stage |-> k, profile |-> profile]
                         /\ Finish(Catch(tool, NotArrayMsg))
                         /\ UNCHANGED <<calls, fetches>>
                    ELSE /\ loc' = [stage |-> k, profile |->
                                [profile EXCEPT
                                    !.risk_score = Num(calculateRiskScore(profile)),
                                    !.lifetime_value = Num(calculateLifetimeValue(profile))]]
                         /\ Finish(ToolResult(ReportText(ProfileHead(inv.args, profile), loc'.profile)))
                         /\ UNCHANGED <<calls, fetches>>
    /\ UNCHANGED <<env, inv, tasks, issued>>

(***************************************************************************)
(* get_policy_details                                                      *)
(***************************************************************************)
DetailStages == <<"policy", "coverage", "billing", "claims">>

\* policy.data?.id || policy_id
ActualPolicyId(args, data) ==
    IF data.shape = "object" /\ Has(data.rec, "id") THEN Str(data.rec.id) ELSE args.policy_id

DetailEnabled(args, id, stage) ==
    /\ Truthy(id)
    /\ CASE stage = "coverage" -> args.include_coverage_details
         [] stage = "billing" -> args.include_billing_history
         [] stage = "claims" -> args.include_claims

DetailCall(e, args, id, stage) ==
    CASE stage = "policy" ->
            callNowCertsAPI(e, "policies",
                IF Truthy(args.policy_id) THEN <<(<<"policy_id", args.policy_id>>)>>
                ELSE <<(<<"policy_number", args.policy_number>>)>>)
      [] stage = "coverage" ->
            callNowCertsAPI(e, "policies/" \o Template(id) \o "/coverage", <<>>)
      [] stage = "billing" ->
            callNowCertsAPI(e, "policies/" \o Template(id) \o "/billing", <<(<<"limit", Num(12)>>)>>)
      [] stage = "claims" ->
            callNowCertsAPI(e, "claims", <<(<<"policy_id", id>>), (<<"limit", Num(10)>>)>>)

NextDetailStage(args, id, k) ==
    LET later == {j \in (k + 1) .. Len(DetailStages) : DetailEnabled(args, id, DetailStages[j])}
    IN  IF later = {} THEN 0 ELSE CHOOSE j \in later : \A i \in later : j <= i

NewDetails(policy_info) ==
    [policy_info |-> policy_info, coverage_details |-> DataArray(<<>>),
     billing_history |-> DataArray(<<>>), claims |-> DataArray(<<>>),
     compliance_status |-> Null]

DetailsWith_null(details, k, c) ==
    IF k = 1 THEN NewDetails(c.val.data)
    ELSE IF c.st = "err" \/ c.val.kind = "null"
    THEN CASE k = 2 -> [details EXCEPT !.coverage_details = NoData]
           [] k = 3 -> [details EXCEPT !.billing_history = NoData]
           [] k = 4 -> [details EXCEPT !.claims = NoData]
    ELSE CASE k = 2 -> [details EXCEPT !.coverage_details = OrEmpty(c.val.data)]
           [] k = 3 -> [details EXCEPT !.billing_history = OrEmpty(c.val.data)]
           [] k = 4 -> [details EXCEPT !.claims = OrEmpty(c.val.data)]

\* The section's try block: the call threw or its body is null, and the catch
\* only logs; otherwise the section is filled.
DetailsWith(details, k, c) ==
    IF k = 1 THEN NewDetails(c.val.data)
    ELSE IF c.st = "err" \/ c.val.kind = "null" THEN details
    ELSE CASE k = 2 -> [details EXCEPT !.coverage_details = OrEmpty(c.val.data)]
           [] k = 3 -> [details EXCEPT !.billing_history = OrEmpty(c.val.data)]
           [] k = 4 -> [details EXCEPT !.claims = OrEmpty(c.val.data)]

\* What the catch of a section writes to the console.
SectionUnavailable ==
    <<"", "Coverage details not available", "Billing history not available",
      "Claims data not available">>

\* The console after the call of stage k settled as c.
ConsoleWith(console, k, c) ==
    IF k > 1 /\ (c.st = "err" \/ c.val.kind = "null")
    THEN Append(console, SectionUnavailable[k]) ELSE console

checkPolicyCompliance(policy) ==
    [compliant |-> TRUE, issues |-> <<>>, last_checked |-> "now"]

DetailsHead(details) ==
    "Policy Details for "
        \o (IF details.policy_info.shape = "object" /\ Has(details.policy_info.rec, "policy_number")
            THEN details.policy_info.rec.policy_number ELSE "undefined")
        \o ":"

get_policy_details ==
    /\ Running("get_policy_details")
    /\ LET c == calls[0]
           k == loc.stage
           tool == inv.tool
       IN  IF k = 1 /\ c.st = "err"
           THEN Finish(Catch(tool, c.err)) /\ UNCHANGED <<loc, calls, fetches>>
           ELSE IF k = 1 /\ c.val.kind = "null"
           THEN Finish(Catch(tool, NullReadMsg)) /\ UNCHANGED <<loc, calls, fetches>>
           ELSE LET details == DetailsWith(loc.details, k, c)
                    id == IF k = 1 THEN ActualPolicyId(inv.args, c.val.data) ELSE loc.id
                    n == NextDetailStage(inv.args, id, k)
                IN  IF n # 0
                    THEN /\ loc' = [stage |-> n, id |-> id, details |-> details,
                                     console |-> ConsoleWith(loc.console, k, c)]
                         /\ Await(DetailStages[n], DetailCall(env, inv.args, id, DetailStages[n]))
                    ELSE /\ loc' = [stage |-> k, id |-> id, details |->
                                [details EXCEPT !.compliance_status =
                                    checkPolicyCompliance(details.policy_info)],
                                     console |-> ConsoleWith(loc.console, k, c)]
                         /\ Finish(ToolResult(ReportText(DetailsHead(details), loc'.details)))
                         /\ UNCHANGED <<calls, fetches>>
    /\ UNCHANGED <<env, inv, tasks, issued>>

(***************************************************************************)
(* get_claims_dashboard                                                    *)
(***************************************************************************)
\* Math.min(limit, cap) of a limit argument that has its default when missing.
LimitOr(limit, default, cap) ==
    Num(Min(IF limit = Undefined THEN default ELSE limit.v, cap))

\* Math.min(limit || default, cap)
LimitOrTruthy(limit, default, cap) ==
    Num(Min(IF Truthy(limit) THEN limit.v ELSE default, cap))

DashboardCall(e, args) ==
    callNowCertsAPI(e, "claims",
        <<(<<"date_from", Str(getDateMonthsAgo(6))>>),
          (<<"date_to", Str("today")>>),
          (<<"limit", LimitOr(args.limit, 100, 200)>>)>>
        \o (IF args.status_filter # <<>>
            THEN <<(<<"status", Str(args.status_filter[1])>>)>> ELSE <<>>))

\* claims.filter(c => claim_types.includes(c.type))
FilterByType(items, types) ==
    SelectSeq(items, LAMBDA r : \E i \in DOMAIN types : Has(r, "type") /\ types[i] = r.type)

generateClaimsSummary_unguarded(claims) ==
    [total_claims |-> Len(claims),
     total_amount |-> SumOf(claims, "amount"),
     avg_amount |-> [num |-> SumOf(claims, "amount"), den |-> Len(claims)],
     open_claims |-> Len(SelectSeq(claims, LAMBDA r : Get(r, "status", "") = "open")),
     closed_claims |-> Len(SelectSeq(claims, LAMBDA r : Get(r, "status", "") = "closed"))]

generateClaimsSummary(claims) ==
    [total_claims |-> Len(claims),
     total_amount |-> SumOf(claims, "amount"),
     avg_amount |-> IF Len(claims) > 0
                    THEN [num |-> SumOf(claims, "amount"), den |-> Len(claims)]
                    ELSE [num |-> 0, den |-> 1],
     open_claims |-> Len(SelectSeq(claims, LAMBDA r : Get(r, "status", "") = "open")),
     closed_claims |-> Len(SelectSeq(claims, LAMBDA r : Get(r, "status", "") = "closed"))]

\* The members every object literal inherits: groups[key] finds one of them
\* where no bucket was made, and the count goes to the inherited member.
ObjectPrototype == {"constructor", "toString", "valueOf", "hasOwnProperty", "__proto__"}

\* The groups of claims by claim[field] || 'unknown', each with its count and
\* its total amount: the own properties of the accumulator.
groupClaimsBy(claims, field) ==
    LET key(r) == IF Get(r, field, "") = "" THEN "unknown" ELSE r[field]
        keys == {key(claims[i]) : i \in DOMAIN claims} \ ObjectPrototype
    IN  [k \in keys |->
            LET of == SelectSeq(claims, LAMBDA r : key(r) = k)
            IN  [count |-> Len(of), total_amount |-> SumOf(of, "amount")]]

\* Instants are counted in days since 1970-01-01; Date.now() is the start of
\* 2026-11-01.
Now == 20758

\* Date.parse of the date strings the upstream uses; any other text is no date.
DateParse(s) ==
    CASE s = "2026-09-01" -> [valid |-> TRUE, day |-> 20697]
      [] s = "2026-10-02" -> [valid |-> TRUE, day |-> 20728]
      [] s = "2026-10-25" -> [valid |-> TRUE, day |-> 20751]
      [] OTHER -> [valid |-> FALSE]

\* new Date(v): undefined is an invalid date, null is converted to the number
\* 0 (1970-01-01), a string is parsed.
NewDate(v) ==
    CASE v.t = "undefined" -> [valid |-> FALSE]
      [] v.t = "null" -> [valid |-> TRUE, day |-> 0]
      [] v.t = "str" -> DateParse(v.v)

\* date < new Date(instant): an invalid date compares false.
Before(date, day) == date.valid /\ date.day < day

\* Open claims created more than 30 days ago.
generateClaimsActionItems(claims) ==
    LET oldOpenClaims ==
            SelectSeq(claims, LAMBDA r :
                /\ Get(r, "status", "") = "open"
                /\ Before(NewDate(Get(r, "date_created", Undefined)), Now - 30))
    IN  IF Len(oldOpenClaims) > 0
        THEN <<[priority |-> "high", action |-> "Review old open claims",
                count |-> Len(oldOpenClaims)]>>
        ELSE <<>>

\* The report of the dashboard over the claims the upstream returned.
ClaimsDashboard(args, items) ==
    LET claimsData == IF args.claim_types # <<>>
                      THEN FilterByType(items, args.claim_types)
                      ELSE items
    IN  [summary |-> generateClaimsSummary(claimsData),
         by_status |-> groupClaimsBy(claimsData, "status"),
         by_type |-> groupClaimsBy(claimsData, "type"),
         action_items |-> generateClaimsActionItems(claimsData)]

get_claims_dashboard ==
    /\ Running("get_claims_dashboard")
    /\ LET c == calls[0]
           tool == inv.tool
       IN  IF c.st = "err" THEN Finish(Catch(tool, c.err))
           ELSE IF c.val.kind = "null" THEN Finish(Catch(tool, NullReadMsg))
           ELSE LET data == OrEmpty(c.val.data) IN
                IF ~IsArray(data) THEN Finish(Catch(tool, NotArrayMsg))
                ELSE Finish(ToolResult(ReportText("Claims Dashboard:",
                                                  ClaimsDashboard(inv.args, data.items))))
    /\ UNCHANGED <<env, inv, loc, tasks, calls, fetches, issued>>

(***************************************************************************)
(* get_sales_pipeline                                                      *)
(***************************************************************************)
LeadsCall(e, args) ==
    callCloseAPI(e, "lead",
        <<(<<"_limit", LimitOr(args.limit, 50, 100)>>)>>
        \o (IF args.date_range
            THEN <<(<<"date_created__gte", Str("from")>>), (<<"date_created__lte", Str("to")>>)>>
            ELSE <<>>))

OpportunitiesCall(e) == callCloseAPI(e, "opportunity", <<(<<"_limit", Num(100)>>)>>)

\* slice without its end.
Slice_all(items, n) == items

\* slice(0, n)
Slice(items, n) == SubSeq(items, 1, Min(Len(items), n))

\* Every opportunity adds 2.
calculateLeadScore_perOpportunity(lead, opportunities) ==
    LET s1 == 5 + 2 * Len(opportunities)
        s2 == s1 + (IF Has(lead, "contacts") /\ lead.contacts > 1 THEN 1 ELSE 0)
    IN  Min(IF s2 > 1 THEN s2 ELSE 1, 10)

calculateLeadScore(lead, opportunities) ==
    LET s1 == 5 + (IF Len(opportunities) > 0 THEN 2 ELSE 0)
        s2 == s1 + (IF Has(lead, "contacts") /\ lead.contacts > 1 THEN 1 ELSE 0)
    IN  Min(IF s2 > 1 THEN s2 ELSE 1, 10)

PipelineEntry(args, lead, opportunitiesData) ==
    LET leadOpportunities ==
            SelectSeq(opportunitiesData,
                      LAMBDA o : IF Has(o, "lead_id") /\ Has(lead, "id")
                                 THEN o.lead_id = lead.id
                                 ELSE ~Has(o, "lead_id") /\ ~Has(lead, "id"))
    IN  [opportunities |-> leadOpportunities,
         total_opportunity_value |-> SumOf(leadOpportunities, "value"),
         lead_score |-> IF args.include_lead_scoring
                        THEN Num(calculateLeadScore(lead, leadOpportunities)) ELSE Null]
        @@ lead

RECURSIVE SumValue(_)
SumValue(entries) ==
    IF entries = <<>> THEN 0
    ELSE Head(entries).total_opportunity_value + SumValue(Tail(entries))

PipelineAnalytics_perOpportunity(pipelineData) ==
    [total_leads |-> Len(pipelineData),
     total_pipeline_value |-> SumValue(pipelineData),
     avg_deal_size |-> IF Len(pipelineData) > 0
                       THEN [num |-> SumValue(pipelineData), den |-> Len(pipelineData)]
                       ELSE [num |-> 0, den |-> 1],
     high_value_leads |->
        Len(SelectSeq(pipelineData,
                      LAMBDA x : \E i \in DOMAIN x.opportunities :
                                    Get(x.opportunities[i], "value", 0) > 10000))]

PipelineAnalytics(pipelineData) ==
    [total_leads |-> Len(pipelineData),
     total_pipeline_value |-> SumValue(pipelineData),
     avg_deal_size |-> IF Len(pipelineData) > 0
                       THEN [num |-> SumValue(pipelineData), den |-> Len(pipelineData)]
                       ELSE [num |-> 0, den |-> 1],
     high_value_leads |->
        Len(SelectSeq(pipelineData, LAMBDA x : x.total_opportunity_value > 10000))]

\* The analysis of the leads with the opportunities fetched.
SalesPipeline(args, leadsItems, opportunitiesData) ==
    LET leads == Slice(leadsItems, 25)
        pipelineData ==
            [i \in DOMAIN leads |-> PipelineEntry(args, leads[i], opportunitiesData.items)]
    IN  [analytics |-> PipelineAnalytics(pipelineData),
         pipeline |-> pipelineData]

get_sales_pipeline ==
    /\ Running("get_sales_pipeline")
    /\ LET c == calls[0]
           tool == inv.tool
       IN  IF c.st = "err"
           THEN Finish(Catch(tool, c.err)) /\ UNCHANGED <<loc, calls, fetches>>
           ELSE IF c.val.kind = "null"
           THEN Finish(Catch(tool, NullReadMsg)) /\ UNCHANGED <<loc, calls, fetches>>
           ELSE IF loc.stage = 1
           THEN /\ loc' = [stage |-> 2, leadsData |-> OrEmpty(c.val.data)]
                /\ Await("opportunities", OpportunitiesCall(env))
           ELSE LET opportunitiesData == OrEmpty(c.val.data) IN
                /\ UNCHANGED <<loc, calls, fetches>>
                /\ IF \/ ~IsArray(loc.leadsData)
                      \/ loc.leadsData.items # <<>> /\ ~IsArray(opportunitiesData)
                   THEN Finish(Catch(tool, NotArrayMsg))
                   ELSE Finish(ToolResult(ReportText("Sales Pipeline Analysis:",
                            SalesPipeline(inv.args, loc.leadsData.items, opportunitiesData))))
    /\ UNCHANGED <<env, inv, tasks, issued>>

(***************************************************************************)
(* The single-call tools.                                                  *)
(***************************************************************************)
NowCertsLookups == {"get_nowcerts_policies", "get_nowcerts_customers"}
CloseLookups == {"get_close_leads", "get_close_contacts"}

LookupCall(e, iv) ==
    CASE iv.tool = "get_nowcerts_policies" ->
            callNowCertsAPI(e, "policies",
                <<(<<"customer_id", iv.args.customer_id>>),
                  (<<"policy_number", iv.args.policy_number>>),
                  (<<"status", iv.args.status>>),
                  (<<"limit", LimitOrTruthy(iv.args.limit, 10, 50)>>)>>)
      [] iv.tool = "get_nowcerts_customers" ->
            callNowCertsAPI(e, "customers",
                <<(<<"customer_id", iv.args.customer_id>>),
                  (<<"email", iv.args.email>>),
                  (<<"phone", iv.args.phone>>),
                  (<<"limit", LimitOrTruthy(iv.args.limit, 10, 25)>>)>>)
      [] iv.tool = "get_close_leads" ->
            IF Truthy(iv.args.lead_id)
            THEN callCloseAPI(e, "lead/" \o iv.args.lead_id.v, <<>>)
            ELSE callCloseAPI(e, "lead",
                    <<(<<"_limit", LimitOrTruthy(iv.args.limit, 25, 50)>>)>>
                    \o (IF Truthy(iv.args.status)
                        THEN <<(<<"status_label", iv.args.status>>)>> ELSE <<>>))
      [] iv.tool = "get_close_contacts" ->
            IF Truthy(iv.args.contact_id)
            THEN callCloseAPI(e, "contact/" \o iv.args.contact_id.v, <<>>)
            ELSE callCloseAPI(e, "contact",
                    <<(<<"_limit", LimitOrTruthy(iv.args.limit, 10, 25)>>)>>
                    \o (IF Truthy(iv.args.lead_id)
                        THEN <<(<<"lead_id", iv.args.lead_id>>)>> ELSE <<>>)
                    \o (IF Truthy(iv.args.email)
                        THEN <<(<<"email", iv.args.email>>)>> ELSE <<>>))

\* `Found ${result.data?.length || 0} ...` and JSON.stringify(result.data || [])
FoundReport(val) ==
    ReportText("Found " \o NumToString(LengthOrZero(val.data)) \o ":", OrEmpty(val.data))

get_nowcerts_lookup ==
    /\ \E tool \in NowCertsLookups : Running(tool)
    /\ LET c == calls[0] IN
       IF c.st = "err" THEN Finish(Catch(inv.tool, c.err))
       ELSE IF c.val.kind = "null" THEN Finish(Catch(inv.tool, NullReadMsg))
       ELSE Finish(ToolResult(FoundReport(c.val)))
    /\ UNCHANGED <<env, inv, loc, tasks, calls, fetches, issued>>

\* With an id the whole parsed body is returned, whatever it is.
ById(iv) ==
    \/ iv.tool = "get_close_leads" /\ Truthy(iv.args.lead_id)
    \/ iv.tool = "get_close_contacts" /\ Truthy(iv.args.contact_id)

get_close_lookup ==
    /\ \E tool \in CloseLookups : Running(tool)
    /\ LET c == calls[0] IN
       IF c.st = "err" THEN Finish(Catch(inv.tool, c.err))
       ELSE IF ById(inv) THEN Finish(ToolResult(ReportText("details:", c.val)))
       ELSE IF c.val.kind = "null" THEN Finish(Catch(inv.tool, NullReadMsg))
       ELSE Finish(ToolResult(FoundReport(c.val)))
    /\ UNCHANGED <<env, inv, loc, tasks, calls, fetches, issued>>

(***************************************************************************)
(* The callbacks of Promise.all(items.map(async ...)).  Callback i runs up  *)
(* to its first await when the map reaches item i, and from one await to    *)
(* the next when its upstream call in slot i settles.                       *)
(***************************************************************************)
Task(pc, item, value) == [pc |-> pc, item |-> item, value |-> value]

\* r[f] as a query parameter value
StrField(r, f) == IF Has(r, f) THEN Str(r[f]) ELSE Undefined

\* The handler is suspended at Promise.all and every callback has returned.
AllSettled == \A i \in TaskIds : tasks[i].pc \in {"none", "done"}

Values_reversed(n) == [i \in 1 .. n |-> tasks[n + 1 - i].value]

\* The values of the callbacks, in the order of the items.
Values(n) == [i \in 1 .. n |-> tasks[i].value]

\* items.map(async ...): every callback runs to its first await, in order.
\* The handler's own call has returned and leaves slot 0.
\* begun[i] is callback i at its first await, started[i] the call it awaits.
FanOut(begun, started) ==
    /\ tasks' = [i \in TaskIds |-> IF i \in DOMAIN begun THEN begun[i] ELSE NoTask]
    /\ calls' = [s \in Slots |-> IF s \in DOMAIN started THEN started[s] ELSE NoCall]
    /\ fetches' = fetches \o [i \in DOMAIN started |-> Fetch(started[i])]

(***************************************************************************)
(* search_customers_advanced                                               *)
(***************************************************************************)
SearchCall(e, args) ==
    callNowCertsAPI(e, "customers/search",
        args.search_criteria \o args.filters
            \o <<(<<"limit", LimitOr(args.limit, 25, 100)>>)>>)

CustomerPoliciesCall(e, customer) ==
    callNowCertsAPI(e, "policies",
        <<(<<"customer_id", StrField(customer, "id")>>), (<<"limit", Num(5)>>)>>)

\* policies.data?.find(p => p.status === 'active')?.expiration_date
NextRenewal(d) ==
    IF d.shape # "array" THEN Undefined
    ELSE LET active == SelectSeq(d.items, LAMBDA r : Get(r, "status", "") = "active")
         IN  IF active = <<>> THEN Undefined ELSE StrField(active[1], "expiration_date")

EnhancedCustomer_lost(customer, c) ==
    IF c.st = "err" \/ c.val.kind = "null" \/ c.val.data.shape = "object"
    THEN Null
    ELSE [policy_count |-> LengthOrZero(c.val.data),
          total_premium |-> IF IsArray(c.val.data)
                            THEN SumOf(c.val.data.items, "premium_amount") ELSE 0,
          next_renewal |-> NextRenewal(c.val.data)]
         @@ customer

\* The callback's try block once its lookup c has settled: the customer with
\* its policy summary, or the bare customer when the lookup or a read of its
\* body threw.
EnhancedCustomer(customer, c) ==
    IF c.st = "err" \/ c.val.kind = "null" \/ c.val.data.shape = "object"
    THEN customer
    ELSE [policy_count |-> LengthOrZero(c.val.data),
          total_premium |-> IF IsArray(c.val.data)
                            THEN SumOf(c.val.data.items, "premium_amount") ELSE 0,
          next_renewal |-> NextRenewal(c.val.data)]
         @@ customer

\* The customers the map runs over: (customers.data || []).slice(0, 10).
SearchItems(items) == Slice(items, 10)

\* The values of Promise.all over the first 10 customers, settled[i] being the
\* settled lookup of callback i.
EnhancedResults(customersData, settled) ==
    LET items == SearchItems(customersData.items) IN
    [i \in DOMAIN items |-> EnhancedCustomer(items[i], settled[i])]

SearchHead(n) == "Found " \o NumToString(n) \o " customers:"

search_customers_advanced ==
    /\ Running("search_customers_advanced")
    /\ LET c == calls[0]
           tool == inv.tool
       IN  IF loc.stage = 1
           THEN IF c.st = "err"
                THEN Finish(Catch(tool, c.err)) /\ UNCHANGED <<loc, tasks, calls, fetches>>
                ELSE IF c.val.kind = "null"
                THEN Finish(Catch(tool, NullReadMsg)) /\ UNCHANGED <<loc, tasks, calls, fetches>>
                ELSE IF ~IsArray(OrEmpty(c.val.data))
                THEN Finish(Catch(tool, NotArrayMsg)) /\ UNCHANGED <<loc, tasks, calls, fetches>>
                ELSE LET items == SearchItems(OrEmpty(c.val.data).items) IN
                     /\ loc' = [stage |-> 2, n |-> Len(items)]
                     /\ FanOut([i \in DOMAIN items |-> Task("policies", items[i], items[i])],
                               [i \in DOMAIN items |-> CustomerPoliciesCall(env, items[i])])
                     /\ hpc' = "all"
                     /\ result' = result
           ELSE /\ AllSettled
                /\ Finish(ToolResult(ReportText(SearchHead(loc.n), Values(loc.n))))
                /\ UNCHANGED <<loc, tasks, calls, fetches>>
    /\ UNCHANGED <<env, inv, issued>>

(***************************************************************************)
(* get_renewals_report                                                     *)
(***************************************************************************)
RenewalsCall(e, args) ==
    callNowCertsAPI(e, "policies",
        <<(<<"expiration_date_from", Str(args.date_range.from)>>),
          (<<"expiration_date_to", Str(args.date_range.to)>>),
          (<<"status", Str("active")>>),
          (<<"limit", LimitOr(args.limit, 50, 100)>>)>>)

PolicyCustomerCall(e, policy) ==
    callNowCertsAPI(e, "customers", <<(<<"customer_id", StrField(policy, "customer_id")>>)>>)

PolicyClaimsCall(e, policy) ==
    callNowCertsAPI(e, "claims",
        <<(<<"policy_id", StrField(policy, "id")>>),
          (<<"date_from", Str(getDateMonthsAgo(24))>>),
          (<<"limit", Num(5)>>)>>)

NewEnhancement(policy) ==
    [customer_info |-> Null, claims_history |-> DataArray(<<>>),
     renewal_recommendation |-> Null]
    @@ policy

generateRenewalRecommendation_fromTwo(policy, claims) ==
    LET claimsCount == LengthOrZero(claims) IN
    [action |-> IF claimsCount > 1 THEN "review" ELSE "retain",
     confidence |-> IF claimsCount > 1 THEN 65 ELSE 85,
     reasons |-> IF claimsCount > 1
                 THEN <<"High claims frequency">> ELSE <<"Good claims history">>,
     suggested_adjustments |-> <<>>]

\* The confidence is in hundredths.
generateRenewalRecommendation(policy, claims) ==
    LET claimsCount == LengthOrZero(claims) IN
    [action |-> IF claimsCount > 2 THEN "review" ELSE "retain",
     confidence |-> IF claimsCount > 2 THEN 65 ELSE 85,
     reasons |-> IF claimsCount > 2
                 THEN <<"High claims frequency">> ELSE <<"Good claims history">>,
     suggested_adjustments |-> <<>>]

RenewalsSummary(enhancedRenewals) ==
    [total_policies |-> Len(enhancedRenewals),
     total_premium |-> SumOf(enhancedRenewals, "premium_amount"),
     avg_premium |-> IF Len(enhancedRenewals) > 0
                     THEN [num |-> SumOf(enhancedRenewals, "premium_amount"),
                           den |-> Len(enhancedRenewals)]
                     ELSE [num |-> 0, den |-> 1],
     retention_recommendations |->
        Len(SelectSeq(enhancedRenewals,
                      LAMBDA x : /\ Has(x.renewal_recommendation, "action")
                                 /\ x.renewal_recommendation.action = "retain"))]

RenewalsReport(enhancedRenewals) ==
    [summary |-> RenewalsSummary(enhancedRenewals),
     detailed |-> enhancedRenewals]

\* An awaited call that makes the callback's try block throw: the call
\* rejected, or its value is null and the callback reads .data of it.
CallFailed(c) == c.st = "err" \/ c.val.kind = "null"

WithCustomer(value, c) == [value EXCEPT !.customer_info = c.val.data]

WithClaims(value, policy, c, include) ==
    LET history == OrEmpty(c.val.data) IN
    [value EXCEPT !.claims_history = history,
                  !.renewal_recommendation =
                      IF include THEN generateRenewalRecommendation(policy, history)
                      ELSE @]

\* What the callback of one policy returns, from the outcomes of its customer
\* call and its claims call (the second is made only after the first
\* succeeded).
EnhancedRenewal(policy, customer, claims, include) ==
    LET enhanced == NewEnhancement(policy) IN
    IF CallFailed(customer) THEN enhanced
    ELSE IF CallFailed(claims) THEN WithCustomer(enhanced, customer)
    ELSE WithClaims(WithCustomer(enhanced, customer), policy, claims, include)

\* The policies the map runs over: those of the requested types, cut to the
\* first 20.
RenewalItems(args, items) ==
    LET renewalData == IF args.policy_types # <<>>
                       THEN FilterByType(items, args.policy_types)
                       ELSE items
    IN  Slice(renewalData, 20)

RenewalsHead(args) ==
    "Renewals Report (" \o args.date_range.from \o " to " \o args.date_range.to \o "):"

get_renewals_report ==
    /\ Running("get_renewals_report")
    /\ LET c == calls[0]
           tool == inv.tool
       IN  IF loc.stage = 1
           THEN IF c.st = "err"
                THEN Finish(Catch(tool, c.err)) /\ UNCHANGED <<loc, tasks, calls, fetches>>
                ELSE IF c.val.kind = "null"
                THEN Finish(Catch(tool, NullReadMsg)) /\ UNCHANGED <<loc, tasks, calls, fetches>>
                ELSE IF ~IsArray(OrEmpty(c.val.data))
                THEN Finish(Catch(tool, NotArrayMsg)) /\ UNCHANGED <<loc, tasks, calls, fetches>>
                ELSE LET items == RenewalItems(inv.args, OrEmpty(c.val.data).items)
                     IN  /\ loc' = [stage |-> 2, n |-> Len(items)]
                         /\ FanOut([i \in DOMAIN items |->
                                        Task("customer", items[i], NewEnhancement(items[i]))],
                                   [i \in DOMAIN items |-> PolicyCustomerCall(env, items[i])])
                         /\ hpc' = "all"
                         /\ result' = result
           ELSE /\ AllSettled
                /\ Finish(ToolResult(ReportText(RenewalsHead(inv.args),
                                                 RenewalsReport(Values(loc.n)))))
                /\ UNCHANGED <<loc, tasks, calls, fetches>>
    /\ UNCHANGED <<env, inv, issued>>

(***************************************************************************)
(* The call in slot s has become c.  The handler's own call (slot 0) waits *)
(* for the handler's next step; a callback's call that has returned or     *)
(* thrown resumes the callback at once.                                    *)
(***************************************************************************)
ResumeSearch(s, c) ==
    /\ tasks' = [tasks EXCEPT ![s] = Task("done", @.item, EnhancedCustomer(@.item, c))]
    /\ calls' = [calls EXCEPT ![s] = NoCall]
    /\ fetches' = fetches

\* A failed call undoes the enrichment of every policy.
ResumeRenewals_resetAll(s, c) ==
    LET t == tasks[s] IN
    IF CallFailed(c)
    THEN /\ tasks' = [i \in TaskIds |->
                        IF i = s THEN Task("done", t.item, t.value)
                        ELSE IF tasks[i].pc = "none" THEN tasks[i]
                        ELSE Task(tasks[i].pc, tasks[i].item, NewEnhancement(tasks[i].item))]
         /\ calls' = [calls EXCEPT ![s] = NoCall]
         /\ fetches' = fetches
    ELSE IF t.pc = "customer"
    THEN LET next == PolicyClaimsCall(env, t.item) IN
         /\ tasks' = [tasks EXCEPT ![s] = Task("claims", t.item, WithCustomer(t.value, c))]
         /\ calls' = [calls EXCEPT ![s] = next]
         /\ fetches' = Append(fetches, Fetch(next))
    ELSE /\ tasks' = [tasks EXCEPT ![s] =
                        Task("done", t.item,
                             WithClaims(t.value, t.item, c,
                                        inv.args.include_recommendations))]
         /\ calls' = [calls EXCEPT ![s] = NoCall]
         /\ fetches' = fetches

ResumeRenewals(s, c) ==
    LET t == tasks[s] IN
    IF CallFailed(c)
    THEN /\ tasks' = [tasks EXCEPT ![s] = Task("done", t.item, t.value)]
         /\ calls' = [calls EXCEPT ![s] = NoCall]
         /\ fetches' = fetches
    ELSE IF t.pc = "customer"
    THEN LET next == PolicyClaimsCall(env, t.item) IN
         /\ tasks' = [tasks EXCEPT ![s] = Task("claims", t.item, WithCustomer(t.value, c))]
         /\ calls' = [calls EXCEPT ![s] = next]
         /\ fetches' = Append(fetches, Fetch(next))
    ELSE /\ tasks' = [tasks EXCEPT ![s] =
                        Task("done", t.item,
                             WithClaims(t.value, t.item, c,
                                        inv.args.include_recommendations))]
         /\ calls' = [calls EXCEPT ![s] = NoCall]
         /\ fetches' = fetches

Settled(s, c) ==
    IF s = 0 \/ ~Done(c)
    THEN calls' = [calls EXCEPT ![s] = c] /\ UNCHANGED <<tasks, fetches>>
    ELSE IF inv.tool = "search_customers_advanced" THEN ResumeSearch(s, c)
    ELSE ResumeRenewals(s, c)

(***************************************************************************)
(* The upstream answers a request of the call in slot s.                   *)
(***************************************************************************)
FirstGetResponds(s, r) ==
    /\ calls[s].st = "get1"
    /\ calls[s].api = "nowcerts"
    /\ Settled(s, OnFirstResponse(env, calls[s], r))
    /\ UNCHANGED <<env, inv, hpc, loc, result, issued>>

RefreshResponds(s, r) ==
    /\ calls[s].st = "refresh"
    /\ Settled(s, OnRefreshResponse(env, calls[s], r))
    /\ UNCHANGED <<env, inv, hpc, loc, result, issued>>

RetryGetResponds(s, r) ==
    /\ calls[s].st = "get2"
    /\ Settled(s, OnRetryResponse(env, calls[s], r))
    /\ UNCHANGED <<env, inv, hpc, loc, result, issued>>

CloseGetResponds(s, r) ==
    /\ calls[s].st = "get1"
    /\ calls[s].api = "close"
    /\ Settled(s, OnCloseResponse(calls[s], r))
    /\ UNCHANGED <<env, inv, hpc, loc, result, issued>>

\* The issued access token reaches the end of its lifetime.
TokenExpires ==
    /\ issued = "fresh"
    /\ issued' = "expired"
    /\ UNCHANGED <<env, inv, hpc, loc, tasks, calls, fetches, result>>

(***************************************************************************)
(* The clients called directly with any parameter object.                  *)
(***************************************************************************)
ParamKeys == <<"customer_id", "limit", "status", "active_policies_only">>
ParamValues == {Undefined, Null, Bool(FALSE), Num(0), Str("a b")}
ParamObjects ==
    UNION {{[i \in 1 .. n |-> <<ParamKeys[i], v[i]>>] : v \in [1 .. n -> ParamValues]} :
           n \in 0 .. MaxParams}

ClientCallNowCerts(params) ==
    /\ inv = NoInv
    /\ calls[0] = NoCall
    /\ calls' = [calls EXCEPT ![0] = callNowCertsAPI(env, "policies", params)]
    /\ fetches' = <<Fetch(calls'[0])>>
    /\ UNCHANGED <<env, inv, hpc, loc, tasks, result, issued>>

ClientCallClose(params) ==
    /\ inv = NoInv
    /\ calls[0] = NoCall
    /\ calls' = [calls EXCEPT ![0] = callCloseAPI(env, "lead", params)]
    /\ fetches' = <<Fetch(calls'[0])>>
    /\ UNCHANGED <<env, inv, hpc, loc, tasks, result, issued>>

\* The refresh response of call c carried an access token.
ObtainedToken(c) ==
    \E i \in DOMAIN c.got :
        /\ c.sent[i].method = "POST"
        /\ c.got[i].k = "resp" /\ Ok(c.got[i])
        /\ c.got[i].body.kind = "object"
        /\ c.got[i].body.access_token # Undefined

\* The token a refresh obtained replaces the configured one.
ClientReturn_store ==
    /\ inv = NoInv
    /\ Done(calls[0])
    /\ calls' = [calls EXCEPT ![0] = NoCall]
    /\ fetches' = <<>>
    /\ issued' = IF ObtainedToken(calls[0]) THEN "fresh" ELSE issued
    /\ env' = IF ObtainedToken(calls[0])
              THEN [env EXCEPT !.NOWCERTS_ACCESS_TOKEN = "tok_new"] ELSE env
    /\ UNCHANGED <<inv, hpc, loc, tasks, result>>

\* The call has returned or thrown; the caller goes on.
ClientReturn ==
    /\ inv = NoInv
    /\ Done(calls[0])
    /\ calls' = [calls EXCEPT ![0] = NoCall]
    /\ fetches' = <<>>
    /\ issued' = IF ObtainedToken(calls[0]) THEN "fresh" ELSE issued
    /\ UNCHANGED <<env, inv, hpc, loc, tasks, result>>

NextClient ==
    \/ \E p \in ParamObjects : ClientCallNowCerts(p)
    \/ \E p \in ParamObjects : ClientCallClose(p)
    \/ ClientReturn
    \/ TokenExpires
    \/ \E s \in Slots, r \in GetResponses : FirstGetResponds(s, r)
    \/ \E s \in Slots, r \in RefreshResponses : RefreshResponds(s, r)
    \/ \E s \in Slots, r \in GetResponses : RetryGetResponds(s, r)
    \/ \E s \in Slots, r \in GetResponses : CloseGetResponds(s, r)

SpecClient == Init /\ [][NextClient]_vars

(***************************************************************************)
(* The gateway.                                                            *)
(***************************************************************************)
ProfileArgs ==
    [customer_id : {"C100"}, include_policies : BOOLEAN, include_claims : BOOLEAN,
     include_quotes : BOOLEAN, date_range_months : {12}]

DetailsArgs ==
    [policy_id : {Undefined}, policy_number : {Str("N1")},
     include_coverage_details : BOOLEAN, include_billing_history : BOOLEAN,
     include_claims : BOOLEAN]
    \cup
    [policy_id : {Str("P1"), Undefined}, policy_number : {Undefined},
     include_coverage_details : {TRUE}, include_billing_history : {FALSE},
     include_claims : {TRUE}]

DashboardArgs ==
    [status_filter : {<<>>, <<"open">>}, claim_types : {<<>>, <<"auto">>}, limit : {Undefined}]

PipelineArgs ==
    [date_range : BOOLEAN, include_lead_scoring : BOOLEAN, limit : {Undefined}]

LookupArgs(tool) ==
    CASE tool = "get_nowcerts_policies" ->
            [customer_id : {Undefined, Str("C100")}, policy_number : {Undefined},
             status : {Undefined}, limit : {Undefined, Num(75)}]
      [] tool = "get_nowcerts_customers" ->
            [customer_id : {Str("C100")}, email : {Undefined}, phone : {Undefined},
             limit : {Undefined}]
      [] tool = "get_close_leads" ->
            [lead_id : {Undefined, Str("L1")}, status : {Undefined, Str("active")},
             limit : {Undefined}]
      [] tool = "get_close_contacts" ->
            [contact_id : {Undefined, Str("K1")}, lead_id : {Undefined}, email : {Undefined},
             limit : {Undefined}]

SearchArgs ==
    [search_criteria : {<<(<<"name", Str("Acme")>>)>>},
     filters : {<<>>, <<(<<"active_policies_only", Bool(FALSE)>>)>>},
     limit : {Undefined}]

\* policy_types is <<>> when it is not given.
RenewalsArgs ==
    [date_range : {[from |-> "2026-01-01", to |-> "2026-12-31"]},
     policy_types : {<<"auto">>}, include_recommendations : BOOLEAN,
     limit : {Undefined}]
    \cup
    [date_range : {[from |-> "2026-01-01", to |-> "2026-12-31"]},
     policy_types : {<<>>}, include_recommendations : {TRUE},
     limit : {Undefined}]

Invocations ==
    {[tool |-> "get_customer_profile", args |-> a] : a \in ProfileArgs}
    \cup {[tool |-> "get_policy_details", args |-> a] : a \in DetailsArgs}
    \cup {[tool |-> "get_claims_dashboard", args |-> a] : a \in DashboardArgs}
    \cup {[tool |-> "get_sales_pipeline", args |-> a] : a \in PipelineArgs}
    \cup {[tool |-> "search_customers_advanced", args |-> a] : a \in SearchArgs}
    \cup {[tool |-> "get_renewals_report", args |-> a] : a \in RenewalsArgs}
    \cup UNION {{[tool |-> t, args |-> a] : a \in LookupArgs(t)} :
                t \in NowCertsLookups \cup CloseLookups}

\* The handler of iv up to its first await.
FirstCall(e, iv) ==
    CASE iv.tool = "get_customer_profile" -> ProfileCall(e, iv.args, "customer")
      [] iv.tool = "get_policy_details" -> DetailCall(e, iv.args, Undefined, "policy")
      [] iv.tool = "get_claims_dashboard" -> DashboardCall(e, iv.args)
      [] iv.tool = "search_customers_advanced" -> SearchCall(e, iv.args)
      [] iv.tool = "get_renewals_report" -> RenewalsCall(e, iv.args)
      [] iv.tool = "get_sales_pipeline" -> LeadsCall(e, iv.args)
      [] OTHER -> LookupCall(e, iv)

FirstLoc(iv) ==
    CASE iv.tool = "get_customer_profile" -> [stage |-> 1, profile |-> NewProfile(NoData)]
      [] iv.tool = "get_policy_details" ->
            [stage |-> 1, id |-> Undefined, details |-> NewDetails(NoData), console |-> <<>>]
      [] OTHER -> [stage |-> 1]

Invoke(iv) ==
    /\ inv = NoInv
    /\ inv' = iv
    /\ loc' = FirstLoc(iv)
    /\ Await("base", FirstCall(env, iv))
    /\ UNCHANGED <<env, tasks, issued>>

\* The gateway has taken the result.
Return ==
    /\ result # NoResult
    /\ inv' = NoInv
    /\ hpc' = "idle"
    /\ loc' = NoLoc
    /\ tasks' = [i \in TaskIds |-> NoTask]
    /\ calls' = [s \in Slots |-> NoCall]
    /\ fetches' = <<>>
    /\ result' = NoResult
    /\ UNCHANGED <<env, issued>>

Next ==
    \/ \E iv \in Invocations : Invoke(iv)
    \/ Return
    \/ \E s \in Slots, r \in GetResponses : FirstGetResponds(s, r)
    \/ \E s \in Slots, r \in RefreshResponses : RefreshResponds(s, r)
    \/ \E s \in Slots, r \in GetResponses : RetryGetResponds(s, r)
    \/ \E s \in Slots, r \in GetResponses : CloseGetResponds(s, r)
    \/ get_customer_profile
    \/ get_policy_details
    \/ search_customers_advanced
    \/ get_renewals_report
    \/ get_claims_dashboard
    \/ get_sales_pipeline
    \/ get_nowcerts_lookup
    \/ get_close_lookup

Spec == Init /\ [][Next]_vars

(***************************************************************************)
(* The tools that fan out, alone.  The upstream answers a request of slot  *)
(* s: Responds(s).  The event loop runs a handler whose awaited promise    *)
(* has settled.                                                            *)
(***************************************************************************)
InvocationsOf(tool) == {iv \in Invocations : iv.tool = tool}

Responds(s) ==
    \/ \E r \in GetResponses : FirstGetResponds(s, r)
    \/ \E r \in RefreshResponses : RefreshResponds(s, r)
    \/ \E r \in GetResponses : RetryGetResponds(s, r)

NextSearch ==
    \/ \E iv \in InvocationsOf("search_customers_advanced") : Invoke(iv)
    \/ Return
    \/ \E s \in Slots : Responds(s)
    \/ search_customers_advanced

\* Only the requests of the first callback are sure to be answered.
SpecRace == Init /\ [][NextSearch]_vars /\ WF_vars(Responds(1))

(***************************************************************************)
(* Properties of the two clients.                                          *)
(***************************************************************************)
Gets(q) == Cardinality({i \in DOMAIN q : q[i].method = "GET"})
Posts(q) == Cardinality({i \in DOMAIN q : q[i].method = "POST"})
IsGet(m) == m.method = "GET"
IsPost(m) == m.method = "POST"
Is401(r) == r.k = "resp" /\ r.status = 401
Is2xx(r) == r.k = "resp" /\ r.status >= 200 /\ r.status <= 299
IsJson(r) == r.k = "resp" /\ r.body.kind # "unparsable"
Started(c) == c.st # "none"
NowCertsCall(c) == Started(c) /\ c.api = "nowcerts"
CloseCall(c) == Started(c) /\ c.api = "close"
RefreshConfigured == env.NOWCERTS_REFRESH_TOKEN # ""

\* The call got 401, then a 2xx refresh response, then a 2xx retried response.
RefreshedAndRetried(c) ==
    /\ NowCertsCall(c) /\ RefreshConfigured
    /\ Len(c.got) = 3
    /\ Is401(c.got[1]) /\ Is2xx(c.got[2]) /\ Is2xx(c.got[3])

\* C3 as stated: 401, then a 2xx refresh, then a 2xx retry make the call return
\* the parsed body of the retried response, the retry carrying the new token.
C3_RetrySucceedsOn2xx ==
    \A s \in Slots :
        RefreshedAndRetried(calls[s]) =>
            /\ calls[s].st = "ok"
            /\ calls[s].val = calls[s].got[3].body
            /\ calls[s].got[2].body.access_token # Undefined
            /\ calls[s].sent[3].auth = "Bearer " \o calls[s].got[2].body.access_token.v

\* C3 amended: 401, then a 2xx refresh response whose JSON body carries an
\* access_token, then a 2xx retried response whose body is JSON, make the call
\* return the parsed body of the retried response; the retry carries the token
\* of the refresh response, not the configured one.
C3_RetrySucceedsOnJson ==
    \A s \in Slots :
        (/\ RefreshedAndRetried(calls[s])
         /\ calls[s].got[2].body.access_token # Undefined
         /\ IsJson(calls[s].got[3])) =>
            /\ calls[s].st = "ok"
            /\ calls[s].val = calls[s].got[3].body
            /\ calls[s].sent[3].method = "GET"
            /\ calls[s].sent[3].url = calls[s].sent[1].url
            /\ calls[s].sent[3].auth = "Bearer " \o calls[s].got[2].body.access_token.v
            /\ calls[s].sent[3].auth # "Bearer " \o env.NOWCERTS_ACCESS_TOKEN

C3_Witness ==
    \E s \in Slots :
        /\ RefreshedAndRetried(calls[s])
        /\ calls[s].got[2].body.access_token = Str("tok_new")
        /\ calls[s].st = "ok"
        /\ calls[s].val.kind = "object"
        /\ calls[s].val.data.shape = "array"
        /\ calls[s].val.data.items # <<>>

\* The first GET and the retried GET were both answered 401.
Two401s(c) ==
    /\ NowCertsCall(c)
    /\ Len(c.got) = 3
    /\ Is401(c.got[1]) /\ Is2xx(c.got[2]) /\ Is401(c.got[3])

OneRetryAtMost(c) ==
    /\ Gets(c.sent) <= 2
    /\ Posts(c.sent) <= 1
    /\ Len(c.sent) >= 2 =>
        /\ IsPost(c.sent[2])
        /\ Is401(c.got[1])
        /\ RefreshConfigured
    /\ Len(c.sent) >= 3 =>
        /\ IsGet(c.sent[3])
        /\ Is2xx(c.got[2])
    /\ (Len(c.got) >= 3 /\ Is401(c.got[3])) => (Done(c) /\ Len(c.sent) = 3)
    /\ Len(c.sent) <= 3

\* C5 as stated: a callNowCertsAPI call retries at most once, and every
\* callCloseAPI call issues exactly one GET and no refresh request.
C5_CloseAlwaysOneGet ==
    \A s \in Slots :
        /\ NowCertsCall(calls[s]) => OneRetryAtMost(calls[s])
        /\ CloseCall(calls[s]) =>
            /\ Gets(calls[s].sent) = 1
            /\ Posts(calls[s].sent) = 0

\* C5 amended: a callNowCertsAPI call retries at most once; a callCloseAPI call
\* issues exactly one GET when CLOSE_API_KEY is configured and no request at
\* all when it is not, and never a refresh request.
C5_AtMostOneRetry ==
    \A s \in Slots :
        /\ NowCertsCall(calls[s]) => OneRetryAtMost(calls[s])
        /\ CloseCall(calls[s]) =>
            /\ Gets(calls[s].sent) = (IF env.CLOSE_API_KEY = "" THEN 0 ELSE 1)
            /\ Posts(calls[s].sent) = 0
            /\ Len(calls[s].sent) <= 1

C5_Witness ==
    /\ \E s \in Slots : Two401s(calls[s]) /\ Done(calls[s])
    /\ env.CLOSE_API_KEY # ""

\* The first GET was answered 401 and the refresh request failed.
RefreshFailed(c) ==
    /\ NowCertsCall(c) /\ RefreshConfigured
    /\ Len(c.got) >= 2
    /\ Is401(c.got[1])
    /\ (c.got[2].k = "throw" \/ ~Is2xx(c.got[2]))

\* C6: a 401 followed by a failed refresh request (non-2xx or transport
\* failure) makes the call fail with the 'expired, refresh failed' error, and
\* no retry GET is issued.
C6_RefreshFailureIsDistinct ==
    \A s \in Slots :
        RefreshFailed(calls[s]) =>
            /\ calls[s].st = "err"
            /\ calls[s].err = "NowCerts token expired and refresh failed."
            /\ Len(calls[s].sent) = 2
            /\ Gets(calls[s].sent) = 1

C6_Witness ==
    /\ \E s \in Slots : RefreshFailed(calls[s]) /\ calls[s].got[2].k = "throw"

\* The token a refresh response of the model issues.
IssuedToken == "tok_new"

Defined(params) == SelectSeq(params, LAMBDA kv : kv[2] # Undefined /\ kv[2] # Null)

\* C8: the query of a call has exactly one key=value pair for every field of
\* the parameter object whose value is neither undefined nor null (false and 0
\* are present), in the order of the fields, and no key for any other field;
\* the URL of the request ends with that query.
C8_QueryHasDefinedFields ==
    LET c == calls[0] IN
    Started(c) =>
        /\ Len(c.query) = Len(Defined(c.params))
        /\ \A i \in DOMAIN c.params :
            LET k == c.params[i][1]
                v == c.params[i][2]
            IN  Cardinality({j \in DOMAIN c.query : c.query[j][1] = k}) =
                    (IF v = Undefined \/ v = Null THEN 0 ELSE 1)
        /\ \A j \in DOMAIN c.query :
            /\ c.query[j][1] = Defined(c.params)[j][1]
            /\ c.query[j][2] = JsToString(Defined(c.params)[j][2])
        /\ c.sent # <<>> =>
            c.sent[1].url =
                (IF c.api = "nowcerts" THEN "https://api.nowcerts.com/v1/"
                                       ELSE "https://api.close.com/api/v1/")
                \o c.endpoint
                \o (IF Defined(c.params) = <<>> THEN "" ELSE "?")
                \o QueryString([j \in DOMAIN Defined(c.params) |->
                                    <<Defined(c.params)[j][1],
                                      JsToString(Defined(c.params)[j][2])>>])

C8_Witness ==
    LET c == calls[0] IN
    /\ Started(c)
    /\ c.sent # <<>>
    /\ \E i, j \in DOMAIN c.params :
        /\ c.params[i][2] \in {Bool(FALSE), Num(0)}
        /\ c.params[j][2] \in {Undefined, Null}
    /\ Len(c.query) = 1
    /\ c.query[1][2] \in {"false", "0"}

(***************************************************************************)
(* Properties of the tool handlers.                                        *)
(***************************************************************************)
Aggregations ==
    {"get_customer_profile", "search_customers_advanced", "get_policy_details",
     "get_renewals_report", "get_claims_dashboard", "get_sales_pipeline"}

Returned == result # NoResult
IsResultObject(res) ==
    /\ res.kind = "result"
    /\ Len(res.content) = 1
    /\ res.content[1].type = "text"
IsFailureResult(res) == IsResultObject(res) /\ res.content[1].text.form = "error"
IsReport(res) == IsResultObject(res) /\ res.content[1].text.form = "report"

\* A response that makes a fetch fail: no response at all, or a non-2xx one.
FailedResponse(r) == r.k = "throw" \/ ~Is2xx(r)

\* The base fetch of get_customer_profile succeeded and the fetch of one of
\* its enabled inclusions failed.
InclusionFailed ==
    /\ inv.tool = "get_customer_profile"
    /\ Returned
    /\ loc.stage > 1
    /\ calls[0].st = "err"

\* C1: when the base fetch of get_customer_profile succeeds and the fetch of
\* an enabled inclusion fails, the handler still returns a profile, not an
\* error, with risk_score and lifetime_value computed.
C1_InclusionFailureDegrades ==
    InclusionFailed =>
        /\ IsReport(result)
        /\ result.content[1].text.json.risk_score # Null
        /\ result.content[1].text.json.lifetime_value # Null

\* The primary fetch of an aggregation has failed: it is the only fetch begun,
\* and the call has thrown or the last response to it was a failure.
PrimaryFailed ==
    /\ inv.tool \in Aggregations
    /\ Len(fetches) = 1
    /\ Done(calls[0])
    /\ \/ calls[0].st = "err"
       \/ calls[0].got # <<>> /\ FailedResponse(calls[0].got[Len(calls[0].got)])

\* C2: in every aggregation, once the primary fetch has failed the handler
\* returns an error result and begins no other fetch.
C2_PrimaryFailureIsError ==
    [][PrimaryFailed =>
        /\ Len(fetches') <= 1
        /\ ~Returned => IsFailureResult(result')
        /\ Returned => IsFailureResult(result)]_vars

C2_Witness ==
    /\ PrimaryFailed
    /\ inv.tool = "get_renewals_report"
    /\ IsFailureResult(result)
    /\ \A i \in TaskIds : tasks[i] = NoTask

\* C9: every result that reports a failure carries isError = true.
C9_FailureIsFlagged ==
    (Returned /\ IsFailureResult(result)) =>
        /\ Has(result, "isError")
        /\ result.isError = TRUE

\* C10: no exception propagates out of a handler: whatever the upstream
\* answers, what a handler hands to the gateway is a result object.
C10_HandlerNeverThrows ==
    Returned =>
        /\ result.kind # "thrown"
        /\ IsResultObject(result)

C10_Witness ==
    /\ Returned
    /\ IsFailureResult(result)
    /\ result.content[1].text.message = NullReadMsg

\* The collections of a report: the members filled from the data of an
\* upstream body with `x.data || []`.
Collections(tool, json) ==
    CASE tool = "get_customer_profile" -> {json.policies, json.claims, json.quotes}
      [] tool = "get_policy_details" ->
            {json.coverage_details, json.billing_history, json.claims}
      [] tool = "get_renewals_report" ->
            {json.detailed[i].claims_history : i \in DOMAIN json.detailed}
      [] tool \in NowCertsLookups \/ (tool \in CloseLookups /\ ~ById(inv)) -> {json}
      [] OTHER -> {}

\* C16: whatever the data of the upstream bodies, present or absent, every
\* collection of a report is a sequence.
C16_CollectionsAreSequences ==
    Returned /\ IsReport(result) =>
        \A c \in Collections(inv.tool, result.content[1].text.json) : c.shape = "array"

\* C16, the part that holds: no collection of a report is absent (null or
\* undefined); the list of a lookup is the empty sequence when the body has
\* no data and the data of the body, a sequence or not, otherwise.
C16_CollectionsAreNeverAbsent ==
    Returned /\ IsReport(result) =>
        /\ \A c \in Collections(inv.tool, result.content[1].text.json) :
                c.shape \in {"array", "object"}
        /\ inv.tool \in NowCertsLookups =>
                result.content[1].text.json =
                    (IF calls[0].val.data = NoData THEN DataArray(<<>>)
                     ELSE calls[0].val.data)

FanOutTools == {"search_customers_advanced", "get_renewals_report"}

\* The records of the report of a tool of FanOutTools.
OutputRecords ==
    IF inv.tool = "get_renewals_report" THEN result.content[1].text.json.detailed
    ELSE result.content[1].text.json

\* The records a tool of FanOutTools enriches when the upstream returned
\* records: all of them, or for a renewals report with policy_types the ones
\* of type auto.
InputRecords ==
    LET all == [i \in 1 .. MaxRecs |-> RecAt(i)] IN
    IF inv.tool = "get_renewals_report" /\ inv.args.policy_types # <<>>
    THEN SelectSeq(all, LAMBDA r : Has(r, "type") /\ r.type = "auto")
    ELSE all

\* C18: in search_customers_advanced and get_renewals_report the i-th output
\* record is the enrichment of the i-th input record, whatever the order in
\* which the callbacks completed, and the report is returned only when every
\* callback has completed; a callback's call is made for its own record.
C18_OutputFollowsInputOrder ==
    /\ Returned /\ IsReport(result) /\ inv.tool \in FanOutTools =>
            /\ loc.n \in {0, Len(InputRecords)}
            /\ \A i \in 1 .. loc.n : tasks[i].pc = "done" /\ tasks[i].item = InputRecords[i]
            /\ Len(OutputRecords) = loc.n
            /\ \A i \in 1 .. loc.n :
                    \A f \in DOMAIN InputRecords[i] : OutputRecords[i][f] = InputRecords[i][f]
    /\ \A i \in TaskIds :
            /\ tasks[i].pc = "policies" =>
                    Fetch(calls[i]) = Fetch(CustomerPoliciesCall(env, InputRecords[i]))
            /\ tasks[i].pc = "customer" =>
                    Fetch(calls[i]) = Fetch(PolicyCustomerCall(env, InputRecords[i]))
            /\ tasks[i].pc = "claims" =>
                    Fetch(calls[i]) = Fetch(PolicyClaimsCall(env, InputRecords[i]))

\* A renewals report of two policies whose second callback reached its claims
\* call before the first did: the records are in the order of the policies.
C18_Witness ==
    /\ Returned /\ IsReport(result) /\ inv.tool = "get_renewals_report"
    /\ loc.n = 2
    /\ \E j, k \in DOMAIN fetches :
            /\ j < k
            /\ fetches[j] = Fetch(PolicyClaimsCall(env, RecAt(2)))
            /\ fetches[k] = Fetch(PolicyClaimsCall(env, RecAt(1)))
    /\ OutputRecords[1].id = RecAt(1).id
    /\ OutputRecords[2].id = RecAt(2).id
    /\ OutputRecords[1].claims_history # OutputRecords[2].claims_history

\* The section of a details report filled at stage k, and the sections the
\* arguments request.
SectionOf(json, k) ==
    CASE k = 2 -> json.coverage_details
      [] k = 3 -> json.billing_history
      [] k = 4 -> json.claims
RequestedSections(args) ==
    {k \in 2 .. 4 : \/ k = 2 /\ args.include_coverage_details
                    \/ k = 3 /\ args.include_billing_history
                    \/ k = 4 /\ args.include_claims}
SectionFailed(k) == \E i \in DOMAIN loc.console : loc.console[i] = SectionUnavailable[k]

\* C19: in get_policy_details every requested section is fetched (once the
\* policy's id is known), whether or not another section failed; a section
\* whose fetch failed is left empty, and the result is an error only when the
\* fetch of the policy itself failed.
C19_SectionFailureIsIsolated ==
    inv.tool = "get_policy_details" /\ Returned =>
        /\ IsReport(result) \/ IsFailureResult(result)
        /\ IsFailureResult(result) => Len(fetches) = 1 /\ loc.console = <<>>
        /\ IsReport(result) =>
                /\ Truthy(loc.id) =>
                        Len(fetches) = 1 + Cardinality(RequestedSections(inv.args))
                /\ \A k \in 2 .. 4 :
                        SectionFailed(k) =>
                            /\ k \in RequestedSections(inv.args)
                            /\ SectionOf(result.content[1].text.json, k) = DataArray(<<>>)

\* The coverage fetch failed, the claims were fetched after it and are in
\* the report.
C19_Witness ==
    /\ inv.tool = "get_policy_details" /\ Returned /\ IsReport(result)
    /\ SectionFailed(2) /\ ~SectionFailed(4)
    /\ Len(fetches) = 3
    /\ result.content[1].text.json.coverage_details = DataArray(<<>>)
    /\ result.content[1].text.json.claims.shape = "array"
    /\ result.content[1].text.json.claims.items # <<>>

\* No policy was identified: neither identifier was given, or the policy
\* fetch returned a body without a record.
PolicyNotFound ==
    \/ ~Truthy(inv.args.policy_id) /\ ~Truthy(inv.args.policy_number)
    \/ IsReport(result) /\ result.content[1].text.json.policy_info = NoData

\* C20: get_policy_details returns an error result, not a details report,
\* when no policy is identified by policy_id or policy_number.
C20_MissingPolicyIsError ==
    inv.tool = "get_policy_details" /\ Returned /\ PolicyNotFound => IsFailureResult(result)

\* The callbacks of get_renewals_report are running.
Enhancing == inv.tool = "get_renewals_report" /\ hpc = "all" /\ result = NoResult

\* The reported policy of callback i kept its base fields; when its customer
\* call failed it has no customer, no claims and no recommendation, and when
\* its claims call failed it has no claims and no recommendation.
KeptWithDefaults(i) ==
    LET p == OutputRecords[i] IN
    /\ \A f \in DOMAIN InputRecords[i] : Has(p, f) /\ p[f] = InputRecords[i][f]
    /\ p.customer_info = Null =>
            p.claims_history = DataArray(<<>>) /\ p.renewal_recommendation = Null
    /\ inv.args.include_recommendations /\ p.renewal_recommendation = Null =>
            p.claims_history = DataArray(<<>>)

\* C21: in get_renewals_report, once the policies are fetched, a failing
\* customer or claims call never makes the result an error; the policy stays
\* in the report with its base fields and empty defaults; and the step that
\* settles the call of one policy changes the enrichment of no other policy
\* and returns nothing.
C21_EnrichmentFailureIsIsolated ==
    /\ [](inv.tool = "get_renewals_report" /\ Returned /\ loc.stage = 2 =>
            /\ IsReport(result)
            /\ Len(OutputRecords) = loc.n
            /\ \A i \in 1 .. loc.n : KeptWithDefaults(i))
    /\ [][Enhancing /\ hpc' = "all" =>
            /\ result' = NoResult
            /\ Cardinality({i \in TaskIds : tasks'[i] # tasks[i]}) <= 1]_vars

\* A report of two policies: the customer call of the first failed, the
\* second has its customer and its claims.
C21_Witness ==
    /\ inv.tool = "get_renewals_report" /\ Returned /\ IsReport(result)
    /\ loc.n = 2
    /\ OutputRecords[1].id = RecAt(1).id
    /\ OutputRecords[1].customer_info = Null
    /\ OutputRecords[2].customer_info # Null
    /\ OutputRecords[2].claims_history # DataArray(<<>>)

\* The call has begun and has neither returned nor thrown.
InFlight(c) == Started(c) /\ ~Done(c)

\* The first GET of the call was answered 401.
Observed401(c) == Started(c) /\ c.got # <<>> /\ Is401(c.got[1])

\* C22: of the calls to the bearer-token upstream that run together, each
\* one that observed a 401 (with a refresh token configured) has issued a
\* refresh of its own, so at least one is issued and duplicates occur; none
\* issues more than one refresh or more than one retry; and a call completes
\* when its own requests are answered, whatever becomes of the others.
C22_ConcurrentRefreshesAreIndependent ==
    /\ [](\A s \in Slots :
            /\ Started(calls[s]) => Posts(calls[s].sent) <= 1 /\ Gets(calls[s].sent) <= 2
            /\ InFlight(calls[s]) /\ Observed401(calls[s]) /\ RefreshConfigured =>
                    /\ Posts(calls[s].sent) = 1
                    /\ calls[s].st \in {"refresh", "get2"})
    /\ InFlight(calls[1]) ~> ~InFlight(calls[1])

\* Two callbacks observed a 401; the first has its token and retries while
\* the refresh of the second is still unanswered.
C22_Witness ==
    /\ Observed401(calls[1]) /\ Observed401(calls[2])
    /\ calls[1].st = "get2"
    /\ calls[2].st = "refresh"
    /\ Posts(calls[1].sent) = 1 /\ Posts(calls[2].sent) = 1

\* The last response of call c answers a GET of c with a status outside 2xx,
\* and the client does not answer it with a refresh: a 401 is refreshed only
\* when it answers the first GET of callNowCertsAPI and a refresh token is set.
Refreshable(c, i) ==
    /\ i = 1 /\ c.api = "nowcerts" /\ Is401(c.got[1]) /\ RefreshConfigured
FinalNon2xx(c) ==
    /\ Started(c) /\ c.got # <<>>
    /\ IsGet(c.sent[Len(c.got)])
    /\ c.got[Len(c.got)].k = "resp"
    /\ ~Is2xx(c.got[Len(c.got)])
    /\ ~Refreshable(c, Len(c.got))
StatusLine(r) == NumToString(r.status) \o " " \o r.statusText

\* C23: for both clients, a final non-2xx response that is not a refreshable
\* 401 makes the call fail with the upstream error that carries the status and
\* the status text of that response; the call returns no data and sends
\* nothing more.
C23_Non2xxIsUpstreamError ==
    \A s \in Slots :
        FinalNon2xx(calls[s]) =>
            LET c == calls[s]
                r == c.got[Len(c.got)] IN
            /\ c.st = "err"
            /\ c.val = JsonNull
            /\ Len(c.sent) = Len(c.got)
            /\ c.err = (IF c.api = "nowcerts" THEN "NowCerts API error: "
                                              ELSE "Close CRM API error: ")
                            \o StatusLine(r)
            /\ r.status = 401 => c.err \in {"NowCerts API error: 401 Unauthorized",
                                            "Close CRM API error: 401 Unauthorized"}

\* A 401 from the CRM upstream, and a 401 from the insurance upstream with no
\* refresh token configured.
C23_Witness ==
    /\ FinalNon2xx(calls[0])
    /\ Is401(calls[0].got[1])
    /\ Len(calls[0].got) = 1
    /\ \/ calls[0].api = "close"
       \/ calls[0].api = "nowcerts" /\ ~RefreshConfigured

\* The call failed with the 'expired, refresh failed' error.
ReportsRefreshFailure(c) ==
    Started(c) /\ c.st = "err" /\ c.err = "NowCerts token expired and refresh failed."

\* The refresh of the call succeeded and its retried GET met a transport
\* failure.
RetryTransportFailed(c) ==
    /\ NowCertsCall(c)
    /\ Len(c.got) = 3
    /\ Is401(c.got[1]) /\ Is2xx(c.got[2]) /\ c.got[3].k = "throw"

\* C28: callNowCertsAPI reports 'token expired and refresh failed' only when
\* the refresh request itself failed (transport failure or a status outside
\* 2xx); after a refresh that succeeded, a transport failure of the retried
\* GET is reported as a transport error, not as a refresh failure.
C28_ExpiredOnlyOnRefreshFailure ==
    \A s \in Slots :
        /\ ReportsRefreshFailure(calls[s]) => RefreshFailed(calls[s])
        /\ RetryTransportFailed(calls[s]) =>
                /\ calls[s].st = "err"
                /\ calls[s].err = "TypeError: fetch failed"

\* C28, what holds: the error is reported exactly when something inside the
\* try block threw: the refresh request failed, its 2xx response had no JSON
\* object for a body, or the retried GET met a transport failure.
C28_ExpiredIffTryBlockThrew ==
    \A s \in Slots :
        Done(calls[s]) =>
            (ReportsRefreshFailure(calls[s]) <=>
                \/ RefreshFailed(calls[s])
                \/ /\ NowCertsCall(calls[s]) /\ Len(calls[s].got) = 2
                   /\ Is2xx(calls[s].got[2]) /\ calls[s].got[2].body.kind # "object"
                \/ RetryTransportFailed(calls[s]))

C28_TryBlockWitness ==
    RetryTransportFailed(calls[0]) /\ ReportsRefreshFailure(calls[0])

\* Request i of call c carries a token that a refresh response issued.
CarriesIssuedToken(c, i) ==
    /\ IsGet(c.sent[i])
    /\ c.sent[i].auth # "Bearer " \o env.NOWCERTS_ACCESS_TOKEN

\* C29: callNowCertsAPI never changes the configured tokens.  Whatever calls
\* came before, refreshes that succeeded included, the first GET of a call
\* carries the configured access token and its refresh request the configured
\* refresh token; a token that a refresh issued is carried only by the one
\* retried GET of the call whose refresh response held it.
C29_ConfiguredTokensAreKept ==
    /\ [][env' = env]_vars
    /\ [](\A s \in Slots :
            LET c == calls[s] IN
            NowCertsCall(c) /\ c.sent # <<>> =>
                /\ c.sent[1] = BearerGet(c.sent[1].url, env.NOWCERTS_ACCESS_TOKEN)
                /\ \A i \in DOMAIN c.sent :
                        /\ IsPost(c.sent[i]) =>
                                c.sent[i].refresh_token = env.NOWCERTS_REFRESH_TOKEN
                        /\ CarriesIssuedToken(c, i) =>
                                /\ i = 3 /\ Len(c.sent) = 3
                                /\ IsPost(c.sent[2]) /\ Is2xx(c.got[2])
                                /\ c.sent[3].auth =
                                        "Bearer " \o Template(c.got[2].body.access_token))

\* After a call that obtained a token, a later call started with the
\* configured token again, refreshed, and retried with the token it obtained.
C29_Witness ==
    /\ issued = "fresh"
    /\ NowCertsCall(calls[0])
    /\ Len(calls[0].sent) = 3
    /\ calls[0].sent[1].auth = "Bearer tok_cfg"
    /\ calls[0].sent[3].auth = "Bearer tok_new"
    /\ calls[0].st = "ok"

\* The endpoints get_customer_profile is to call, in order, for its flags.
EnabledEndpoints(args) ==
    <<"customers">>
        \o (IF args.include_policies THEN <<"policies">> ELSE <<>>)
        \o (IF args.include_claims THEN <<"claims">> ELSE <<>>)
        \o (IF args.include_quotes THEN <<"quotes">> ELSE <<>>)

ProfileRunning == inv.tool = "get_customer_profile"

\* C30: get_customer_profile calls the upstream for the customer, the
\* policies, the claims and the quotes in this order, skipping the inclusions
\* whose flag is false, one call at a time and each only after the call before
\* it returned; risk_score and lifetime_value are set only once the calls of
\* all enabled inclusions have returned.
C30_ProfileCallsAreSequential ==
    /\ [](ProfileRunning =>
            LET due == EnabledEndpoints(inv.args) IN
            /\ Len(fetches) <= Len(due)
            /\ \A i \in DOMAIN fetches :
                    fetches[i].api = "nowcerts" /\ fetches[i].endpoint = due[i]
            /\ \A s \in Slots \ {0} : calls[s] = NoCall
            /\ loc.profile.risk_score # Null \/ loc.profile.lifetime_value # Null =>
                    /\ Len(fetches) = Len(due)
                    /\ calls[0].st = "ok"
                    /\ IsReport(result)
                    /\ loc.profile.risk_score # Null /\ loc.profile.lifetime_value # Null)
    /\ [][ProfileRunning /\ inv' = inv /\ fetches' # fetches =>
            /\ calls[0].st = "ok"
            /\ Len(fetches') = Len(fetches) + 1
            /\ calls'[0].st \in {"get1", "err"}
            /\ result' = NoResult]_vars

\* Without policies: the customer, the claims and the quotes were fetched,
\* and the report carries the two metrics.
C30_Witness ==
    /\ ProfileRunning
    /\ ~inv.args.include_policies /\ inv.args.include_claims /\ inv.args.include_quotes
    /\ Len(fetches) = 3
    /\ fetches[2].endpoint = "claims" /\ fetches[3].endpoint = "quotes"
    /\ IsReport(result)
    /\ result.content[1].text.json.risk_score # Null
    /\ result.content[1].text.json.lifetime_value # Null

(***************************************************************************)
(* The helper methods applied to arguments of their own: inv is the        *)
(* application, result the value returned.  A behaviour is one             *)
(* application: an action applies to the initial state only.               *)
(***************************************************************************)
Apply(fn, input, output) ==
    /\ inv' = [tool |-> fn, args |-> input]
    /\ result' = [kind |-> "value", value |-> output]
    /\ UNCHANGED <<env, hpc, loc, tasks, calls, fetches, issued>>

Applied(fn) == inv.tool = fn /\ result.kind = "value"

InitPure ==
    /\ Init
    /\ env = [NOWCERTS_ACCESS_TOKEN |-> "tok_cfg", NOWCERTS_REFRESH_TOKEN |-> "rt_cfg",
              CLOSE_API_KEY |-> "key_cfg"]

\* A profile whose claims are the first n records of R1, R2, R1, ...
ClaimsOf(n) == DataArray([i \in 1 .. n |-> RecAt(i)])
ProfileOfClaims(n) == [NewProfile(NoData) EXCEPT !.claims = ClaimsOf(n)]

ApplyRiskScore ==
    /\ inv = NoInv
    /\ \E n \in 0 .. MaxClaims :
           Apply("calculateRiskScore", ProfileOfClaims(n), calculateRiskScore(ProfileOfClaims(n)))

\* C11: for every claims count n, the risk score is 5 + min(0.5 n, 3), within
\* [1, 10], and no smaller than the score of any smaller count (the model
\* holds twice the score: 10 + min(n, 6) within [2, 20]).
C11_RiskScoreFormula ==
    Applied("calculateRiskScore") =>
        LET n == Len(inv.args.claims.items) IN
        /\ result.value = (IF n >= 6 THEN 16 ELSE 10 + n)
        /\ result.value >= 2 /\ result.value <= 20
        /\ \A m \in 0 .. n : calculateRiskScore(ProfileOfClaims(m)) <= result.value

C11_Witness ==
    /\ Applied("calculateRiskScore")
    /\ Len(inv.args.claims.items) = 7
    /\ result.value = 16

\* The sequences over S of length at most n.
SeqsUpTo(S, n) == UNION {[1 .. k -> S] : k \in 0 .. n}

\* Policies with a premium of 100, of 250, and without premium_amount.
Policies == {[id |-> "p1", premium_amount |-> 100], [id |-> "p2", premium_amount |-> 250],
             [id |-> "p3"]}
ProfileOfPolicies(q) == [NewProfile(NoData) EXCEPT !.policies = DataArray(q)]

ApplyLifetimeValue ==
    /\ inv = NoInv
    /\ \E q \in SeqsUpTo(Policies, MaxItems) :
           Apply("calculateLifetimeValue", ProfileOfPolicies(q),
                 calculateLifetimeValue(ProfileOfPolicies(q)))

\* The number of records of q whose field f is v.
Having(q, f, v) == Cardinality({i \in DOMAIN q : Has(q[i], f) /\ q[i][f] = v})

\* C12: the lifetime value of a profile is 5 times the sum of premium_amount
\* over its policies, a policy without premium_amount counting 0, and it is 0
\* for a profile whose policies are empty (as they are when not included).
C12_LifetimeValueIsFiveTimesPremiums ==
    Applied("calculateLifetimeValue") =>
        LET q == inv.args.policies.items IN
        /\ result.value =
            5 * (100 * Having(q, "premium_amount", 100) + 250 * Having(q, "premium_amount", 250))
        /\ q = <<>> => result.value = 0
        /\ inv.args.policies = NewProfile(NoData).policies => result.value = 0

C12_Witness ==
    /\ Applied("calculateLifetimeValue")
    /\ Len(inv.args.policies.items) = 3
    /\ \E i \in 1 .. 3 : ~Has(inv.args.policies.items[i], "premium_amount")
    /\ result.value = 1750

\* Claims of type auto and home with an amount, and one without amount.
ClaimRecords ==
    {[id |-> "c1", type |-> "auto", status |-> "open", amount |-> 40,
      date_created |-> Str("2026-09-01")],
     [id |-> "c2", type |-> "home", status |-> "closed", amount |-> 60,
      date_created |-> Str("2026-09-01")],
     [id |-> "c3", type |-> "auto", status |-> "open"],
     [id |-> "c4", type |-> "auto", status |-> "open", amount |-> 60,
      date_created |-> Str("2026-10-25")],
     [id |-> "c5", type |-> "home", status |-> "open", amount |-> 40,
      date_created |-> Str("2026-10-02")],
     [id |-> "c6", type |-> "auto", amount |-> 40, date_created |-> Str("n/a")],
     [id |-> "c7", type |-> "home", status |-> "open", amount |-> 60,
      date_created |-> Null],
     [id |-> "c8", type |-> "auto", status |-> "constructor", amount |-> 40,
      date_created |-> Str("2026-10-25")]}

ApplyClaimsDashboard ==
    /\ inv = NoInv
    /\ \E q \in SeqsUpTo(ClaimRecords, MaxItems), types \in {<<>>, <<"auto">>} :
           Apply("get_claims_dashboard", [claim_types |-> types, claims |-> q],
                 ClaimsDashboard([claim_types |-> types], q))

\* The outcomes of an awaited client call: it returned a body, or it threw.
Resolved(body) == [st |-> "ok", val |-> body]
Rejected(msg) == [st |-> "err", err |-> msg]

ClaimCounts == {0, 2, 3, MaxClaims}

\* A renewing policy with the outcomes of its two enrichment calls.
RenewalCases ==
    {[policy |-> p, customer |-> Rejected(FetchFailedMsg), claims |-> NoCall] :
        p \in {R1, [id |-> "p3"]}}
    \cup
    {[policy |-> p, customer |-> Resolved(JsonObject(DataObject(R1), Undefined)), claims |-> c] :
        p \in {R1, [id |-> "p3"]},
        c \in {Rejected(FetchFailedMsg)}
               \cup {Resolved(JsonObject(ClaimsOf(n), Undefined)) : n \in ClaimCounts}}

EnhancedRenewals(q, include) ==
    [i \in DOMAIN q |-> EnhancedRenewal(q[i].policy, q[i].customer, q[i].claims, include)]

ApplyRenewalsReport ==
    /\ inv = NoInv
    /\ \E q \in SeqsUpTo(RenewalCases, MaxItems), include \in BOOLEAN :
           Apply("get_renewals_report", [include_recommendations |-> include, renewals |-> q],
                 RenewalsReport(EnhancedRenewals(q, include)))

\* C13: each average of a report is 0 when its collection is empty and the
\* total over the count otherwise, never a division by zero: avg_amount of
\* the claims dashboard over the claims left by the type filter, avg_premium
\* of the renewals report over its policies (an average is held as the
\* fraction num / den).
C13_AveragesAreGuarded ==
    /\ Applied("get_claims_dashboard") =>
            LET claims == IF inv.args.claim_types = <<>> THEN inv.args.claims
                          ELSE SelectSeq(inv.args.claims, LAMBDA r : r.type = "auto")
                total == 40 * Having(claims, "amount", 40) + 60 * Having(claims, "amount", 60)
                avg == result.value.summary.avg_amount
            IN  /\ avg.den # 0
                /\ result.value.summary.total_claims = Len(claims)
                /\ result.value.summary.total_amount = total
                /\ IF claims = <<>> THEN avg.num = 0
                   ELSE avg.num = total /\ avg.den = Len(claims)
    /\ Applied("get_renewals_report") =>
            LET q == inv.args.renewals
                total == 100 * Cardinality({i \in DOMAIN q : q[i].policy = R1})
                avg == result.value.summary.avg_premium
            IN  /\ avg.den # 0
                /\ result.value.summary.total_policies = Len(q)
                /\ result.value.summary.total_premium = total
                /\ IF q = <<>> THEN avg.num = 0
                   ELSE avg.num = total /\ avg.den = Len(q)

C13_Witness ==
    /\ Applied("get_claims_dashboard")
    /\ inv.args.claim_types = <<"auto">>
    /\ Len(inv.args.claims) = 3
    /\ result.value.summary.avg_amount = [num |-> 40, den |-> 2]

\* The enrichment of the i-th policy of q completed: both of its calls
\* returned.
Enriched(q, i) == q[i].customer.st = "ok" /\ q[i].claims.st = "ok"
ClaimsCount(q, i) == Len(q[i].claims.val.data.items)

ExpectedRecommendation(n) ==
    IF n > 2 THEN [action |-> "review", confidence |-> 65]
    ELSE [action |-> "retain", confidence |-> 85]

Recommends(policy, expected) ==
    /\ Has(policy.renewal_recommendation, "action")
    /\ policy.renewal_recommendation.action = expected.action
    /\ policy.renewal_recommendation.confidence = expected.confidence

\* C14 as stated: with include_recommendations, every policy of the report
\* carries the recommendation of its claims count, review at 0.65 above 2
\* claims and retain at 0.85 otherwise (a policy whose claims were not
\* fetched has no claims), and retention_recommendations counts the policies
\* recommended retain.
C14_EveryPolicyHasRecommendation ==
    Applied("get_renewals_report") /\ inv.args.include_recommendations =>
        LET q == inv.args.renewals
            report == result.value
        IN  /\ \A i \in DOMAIN q :
                    Recommends(report.detailed[i],
                               ExpectedRecommendation(IF Enriched(q, i)
                                                      THEN ClaimsCount(q, i) ELSE 0))
            /\ report.summary.retention_recommendations =
                    Cardinality({i \in DOMAIN q :
                                    Recommends(report.detailed[i], ExpectedRecommendation(0))})

\* C14, amended: with include_recommendations, every policy of the report
\* whose customer call and claims call both returned carries the
\* recommendation of its claims count (review at 0.65 above 2 claims, retain
\* at 0.85 otherwise); a policy whose enrichment failed carries the null
\* recommendation; retention_recommendations counts the policies
\* recommended retain.
C14_EnrichedPolicyHasRecommendation ==
    Applied("get_renewals_report") /\ inv.args.include_recommendations =>
        LET q == inv.args.renewals
            report == result.value
        IN  /\ \A i \in DOMAIN q :
                    IF Enriched(q, i)
                    THEN Recommends(report.detailed[i],
                                    ExpectedRecommendation(ClaimsCount(q, i)))
                    ELSE report.detailed[i].renewal_recommendation = Null
            /\ report.summary.retention_recommendations =
                    Cardinality({i \in DOMAIN q : Enriched(q, i) /\ ClaimsCount(q, i) <= 2})
            /\ report.summary.retention_recommendations =
                    Cardinality({i \in DOMAIN q :
                                    Recommends(report.detailed[i], ExpectedRecommendation(0))})

\* Three policies, the first with 3 claims and the others with none: review,
\* retain, retain, and 2 retention recommendations.
C14_Witness ==
    /\ Applied("get_renewals_report") /\ inv.args.include_recommendations
    /\ Len(inv.args.renewals) = 3
    /\ \A i \in 1 .. 3 : Enriched(inv.args.renewals, i)
    /\ ClaimsCount(inv.args.renewals, 1) = 3
    /\ ClaimsCount(inv.args.renewals, 2) = 0 /\ ClaimsCount(inv.args.renewals, 3) = 0
    /\ Recommends(result.value.detailed[1], [action |-> "review", confidence |-> 65])
    /\ Recommends(result.value.detailed[2], [action |-> "retain", confidence |-> 85])
    /\ Recommends(result.value.detailed[3], [action |-> "retain", confidence |-> 85])
    /\ result.value.summary.retention_recommendations = 2

\* The leads L1 .. Ln, the first with 2 contacts.
LeadOf(i) ==
    CASE i = 1 -> [id |-> "L1", contacts |-> 2]
      [] i = 2 -> [id |-> "L2", contacts |-> 1]
      [] OTHER -> [id |-> "L" \o NumToString(i)]
LeadsOf(n) == [i \in 1 .. n |-> LeadOf(i)]
LeadCounts == {0, 1, 2, 25, 26}

\* Opportunities of the first lead, of the 26th, and one without value.
Opportunities == {[id |-> "o1", lead_id |-> "L1", value |-> 6000],
                  [id |-> "o2", lead_id |-> "L1", value |-> 5000],
                  [id |-> "o3", lead_id |-> "L26", value |-> 12000],
                  [id |-> "o4", lead_id |-> "L2"]}

ApplySalesPipeline ==
    /\ inv = NoInv
    /\ \E n \in LeadCounts, o \in SeqsUpTo(Opportunities, MaxItems), scoring \in BOOLEAN :
           Apply("get_sales_pipeline",
                 [include_lead_scoring |-> scoring, leads |-> LeadsOf(n), opportunities |-> o],
                 SalesPipeline([include_lead_scoring |-> scoring], LeadsOf(n), DataArray(o)))

\* The opportunities of o joined to one of the first k leads.
Joined(o, k) ==
    SelectSeq(o, LAMBDA x : \E i \in 1 .. k : x.lead_id = LeadOf(i).id)

\* The total value of the opportunities of o joined to lead i.
ValueOfLead(o, i) ==
    6000 * Cardinality({j \in DOMAIN o : o[j].lead_id = LeadOf(i).id /\ o[j].id = "o1"})
    + 5000 * Cardinality({j \in DOMAIN o : o[j].lead_id = LeadOf(i).id /\ o[j].id = "o2"})
    + 12000 * Cardinality({j \in DOMAIN o : o[j].lead_id = LeadOf(i).id /\ o[j].id = "o3"})

CustomerOf(i) == [id |-> "C" \o NumToString(i), name |-> "name"]
CustomersOf(n) == [i \in 1 .. n |-> CustomerOf(i)]
CustomerCounts == {0, 1, 2, 10, 11}

\* The outcomes of a customer's policies lookup: it threw, its body is null,
\* it has no data, it has two policies (the first active, with a premium).
LookupOutcomes ==
    {Rejected(FetchFailedMsg), Resolved(JsonNull), Resolved(JsonObject(NoData, Undefined)),
     Resolved(JsonObject(ClaimsOf(2), Undefined))}

\* The lookups of the first MaxItems customers settle as o says, the others
\* return two policies.
SettledLookups(o) ==
    [i \in 1 .. 11 |-> IF i \in DOMAIN o THEN o[i]
                       ELSE Resolved(JsonObject(ClaimsOf(2), Undefined))]

ApplySearch ==
    /\ inv = NoInv
    /\ \E n \in CustomerCounts, o \in [1 .. MaxItems -> LookupOutcomes] :
           Apply("search_customers_advanced", [customers |-> CustomersOf(n), lookups |-> o],
                 EnhancedResults(DataArray(CustomersOf(n)), SettledLookups(o)))

LookupFailed(c) == c.st = "err" \/ c.val = JsonNull

\* C17: the failure of the policies lookup of a customer leaves that
\* customer's record with its search fields alone; the output has
\* min(10, number of search results) records, the i-th for the i-th customer,
\* and the records of the other customers carry policy_count, total_premium
\* and next_renewal.
C17_LookupFailureDegradesOneRecord ==
    Applied("search_customers_advanced") =>
        LET n == Len(inv.args.customers)
            settled == SettledLookups(inv.args.lookups)
        IN  /\ Len(result.value) = Min(10, n)
            /\ \A i \in DOMAIN result.value :
                    IF LookupFailed(settled[i])
                    THEN result.value[i] = CustomerOf(i)
                    ELSE /\ result.value[i].id = CustomerOf(i).id
                         /\ result.value[i].name = CustomerOf(i).name
                         /\ IF settled[i].val.data = NoData
                            THEN /\ result.value[i].policy_count = 0
                                 /\ result.value[i].total_premium = 0
                                 /\ result.value[i].next_renewal = Undefined
                            ELSE /\ result.value[i].policy_count = 2
                                 /\ result.value[i].total_premium = 100
                                 /\ result.value[i].next_renewal = Str("2026-12-31")

\* Of 11 customers found, 10 are reported; the lookup of the second failed,
\* and the first and the third keep their policy summary.
C17_Witness ==
    /\ Applied("search_customers_advanced")
    /\ Len(inv.args.customers) = 11
    /\ Len(result.value) = 10
    /\ inv.args.lookups[2].st = "err"
    /\ result.value[2] = CustomerOf(2)
    /\ Has(result.value[1], "policy_count") /\ result.value[1].policy_count = 2
    /\ Has(result.value[3], "policy_count") /\ result.value[3].policy_count = 2
    /\ result.value[10].total_premium = 100

\* The claims the dashboard analyses: those the type filter leaves.
Analysed ==
    IF inv.args.claim_types = <<>> THEN inv.args.claims
    ELSE SelectSeq(inv.args.claims, LAMBDA r : r.type = "auto")

\* The sum of member f over the buckets K of grouping g.
RECURSIVE SumBuckets(_, _, _)
SumBuckets(g, K, f) ==
    IF K = {} THEN 0
    ELSE LET k == CHOOSE x \in K : TRUE IN g[k][f] + SumBuckets(g, K \ {k}, f)

\* Grouping g by field partitions the analysed claims: each claim is counted
\* in the bucket of its field value ("unknown" without one) and in no other.
Partitions(g, field) ==
    /\ \A i \in DOMAIN Analysed : Get(Analysed[i], field, "unknown") \in DOMAIN g
    /\ \A k \in DOMAIN g :
            g[k].count = Cardinality({i \in DOMAIN Analysed :
                                        Get(Analysed[i], field, "unknown") = k})
    /\ SumBuckets(g, DOMAIN g, "count") = result.value.summary.total_claims
    /\ SumBuckets(g, DOMAIN g, "total_amount") = result.value.summary.total_amount

\* C24: by_status and by_type of the claims dashboard partition the analysed
\* claims: every claim falls in exactly one bucket of each grouping, the
\* bucket counts sum to summary.total_claims and the bucket amounts to
\* summary.total_amount.
C24_GroupsPartitionClaims ==
    Applied("get_claims_dashboard") =>
        /\ Partitions(result.value.by_status, "status")
        /\ Partitions(result.value.by_type, "type")

\* No analysed claim has a field value that names an inherited member.
OwnKeysOnly ==
    \A i \in DOMAIN Analysed :
        /\ Get(Analysed[i], "status", "unknown") \notin ObjectPrototype
        /\ Get(Analysed[i], "type", "unknown") \notin ObjectPrototype

\* C24, the part that holds: the groupings partition the analysed claims
\* when no claim's status or type is the name of a member that every object
\* inherits.
C24_OwnKeysPartitionClaims ==
    Applied("get_claims_dashboard") /\ OwnKeysOnly =>
        /\ Partitions(result.value.by_status, "status")
        /\ Partitions(result.value.by_type, "type")

\* An open claim, a closed claim and a claim without status, grouped.
C24_OwnKeysWitness ==
    /\ Applied("get_claims_dashboard") /\ OwnKeysOnly
    /\ DOMAIN result.value.by_status = {"open", "closed", "unknown"}
    /\ DOMAIN result.value.by_type = {"auto", "home"}

\* The creation date of claim r is a date more than 30 days before now.
OlderThan30Days(r) ==
    /\ Has(r, "date_created")
    /\ r.date_created.t = "str"
    /\ DateParse(r.date_created.v).valid
    /\ Now - DateParse(r.date_created.v).day > 30
OldOpen == SelectSeq(Analysed, LAMBDA r : Get(r, "status", "") = "open" /\ OlderThan30Days(r))

\* C25: action_items holds the single high-priority item "Review old open
\* claims" exactly when an analysed claim is open and was created more than 30
\* days before now; its count is the number of such claims; it is empty
\* otherwise.
C25_ActionItemIffOldOpenClaims ==
    Applied("get_claims_dashboard") =>
        result.value.action_items =
            (IF Len(OldOpen) > 0
             THEN <<[priority |-> "high", action |-> "Review old open claims",
                     count |-> Len(OldOpen)]>>
             ELSE <<>>)

\* No analysed claim has null for its creation date.
NoNullDate ==
    \A i \in DOMAIN Analysed : Get(Analysed[i], "date_created", Undefined) # Null

\* C25, the part that holds: the item is there exactly for the open claims
\* older than 30 days when no claim has null for its creation date.
C25_ActionItemIffOldOpenDated ==
    Applied("get_claims_dashboard") /\ NoNullDate =>
        result.value.action_items =
            (IF Len(OldOpen) > 0
             THEN <<[priority |-> "high", action |-> "Review old open claims",
                     count |-> Len(OldOpen)]>>
             ELSE <<>>)

\* Two old open claims among three that are open.
C25_DatedWitness ==
    /\ Applied("get_claims_dashboard") /\ NoNullDate
    /\ Len(Analysed) = 3
    /\ Len(OldOpen) = 2
    /\ result.value.action_items[1].count = 2

\* The number of fetched opportunities joined to lead i.
JoinedTo(i) ==
    Cardinality({j \in DOMAIN inv.args.opportunities :
                    inv.args.opportunities[j].lead_id = LeadOf(i).id})

\* C26: with lead scoring enabled the lead_score of every analysed lead is 5,
\* plus 2 if an opportunity is joined to it, plus 1 if it has more than one
\* contact, and lies in [1,10]; with lead scoring disabled it is null.
C26_LeadScore ==
    Applied("get_sales_pipeline") =>
        \A i \in DOMAIN result.value.pipeline :
            LET score == result.value.pipeline[i].lead_score IN
            IF inv.args.include_lead_scoring
            THEN /\ score = Num(5 + (IF JoinedTo(i) >= 1 THEN 2 ELSE 0)
                                  + (IF Get(LeadOf(i), "contacts", 0) > 1 THEN 1 ELSE 0))
                 /\ score.v >= 1 /\ score.v <= 10
            ELSE score = Null

\* The first lead, with two contacts and two opportunities, scores 8; the
\* second, with one contact and none, scores 5.
C26_Witness ==
    /\ Applied("get_sales_pipeline")
    /\ inv.args.include_lead_scoring
    /\ Len(result.value.pipeline) = 2
    /\ JoinedTo(1) = 2 /\ JoinedTo(2) = 0
    /\ result.value.pipeline[1].lead_score = Num(8)
    /\ result.value.pipeline[2].lead_score = Num(5)

(***************************************************************************)
(* The two tools that enrich, with the map of each applied to result lists *)
(* longer than its cut, and every awaited request answered in the end.     *)
(***************************************************************************)
PolicyOf(i) ==
    [id |-> "p" \o NumToString(i), customer_id |-> "C" \o NumToString(i),
     type |-> IF i % 3 = 0 THEN "home" ELSE "auto"]
PoliciesOf(n) == [i \in 1 .. n |-> PolicyOf(i)]
FoundCounts == {0, 1, 10, 11, 20, 21, 31}

\* (customers.data || []).slice(0, 10).map(async ...): the calls the callbacks
\* begin, each callback running to its first await.
ApplySearchMap ==
    /\ inv = NoInv
    /\ \E n \in FoundCounts :
           LET items == SearchItems(CustomersOf(n)) IN
           Apply("search_customers_advanced.map", [customers |-> CustomersOf(n)],
                 [i \in DOMAIN items |-> Fetch(CustomerPoliciesCall(env, items[i]))])

\* renewalData.slice(0, 20).map(async ...), after the policy_types filter.
ApplyRenewalsMap ==
    /\ inv = NoInv
    /\ \E n \in FoundCounts, types \in {<<>>, <<"auto">>} :
           LET items == RenewalItems([policy_types |-> types], PoliciesOf(n)) IN
           Apply("get_renewals_report.map",
                 [policy_types |-> types, policies |-> PoliciesOf(n)],
                 [i \in DOMAIN items |-> Fetch(PolicyCustomerCall(env, items[i]))])

NextEnrich ==
    \/ \E iv \in InvocationsOf("search_customers_advanced") : Invoke(iv)
    \/ \E iv \in InvocationsOf("get_renewals_report") : Invoke(iv)
    \/ Return
    \/ \E s \in Slots : Responds(s)
    \/ search_customers_advanced
    \/ get_renewals_report
    \/ ApplySearchMap
    \/ ApplyRenewalsMap

\* Every request is answered in the end, and the event loop resumes a handler
\* whose awaited promise has settled.
SpecEnrich ==
    /\ InitPure
    /\ [][NextEnrich]_vars
    /\ \A s \in Slots : WF_vars(Responds(s))
    /\ WF_vars(search_customers_advanced)
    /\ WF_vars(get_renewals_report)

\* The calls begun for endpoint e in the invocation under way.
CallsTo(e) == Cardinality({i \in DOMAIN fetches : fetches[i].endpoint = e})

\* The policies of PoliciesOf(n) that the type filter leaves.
OfTypes(n, types) ==
    Cardinality({i \in 1 .. n : types = <<>> \/ PolicyOf(i).type = "auto"})

\* C27: search_customers_advanced enriches the first 10 customers found at
\* most, with one policies call each; get_renewals_report enriches the first
\* 20 filtered policies at most, with at most one customer call and one claims
\* call each; no call sends more than two GETs and one refresh; and when every
\* request is answered the invocation returns a result.
C27_EnrichmentIsBounded ==
    /\ [](Applied("search_customers_advanced.map") =>
            /\ Len(result.value) = Min(Len(inv.args.customers), 10)
            /\ \A i \in DOMAIN result.value :
                    /\ result.value[i].endpoint = "policies"
                    /\ result.value[i].query =
                            <<(<<"customer_id", inv.args.customers[i].id>>),
                              (<<"limit", "5">>)>>)
    /\ [](Applied("get_renewals_report.map") =>
            /\ Len(result.value) =
                    Min(OfTypes(Len(inv.args.policies), inv.args.policy_types), 20)
            /\ \A i \in DOMAIN result.value : result.value[i].endpoint = "customers")
    /\ [](inv.tool = "search_customers_advanced" /\ loc.stage = 2 =>
            /\ loc.n <= 10
            /\ CallsTo("customers/search") = 1
            /\ CallsTo("policies") = loc.n
            /\ Len(fetches) = 1 + loc.n)
    /\ [](inv.tool = "get_renewals_report" /\ loc.stage = 2 =>
            /\ loc.n <= 20
            /\ CallsTo("policies") = 1
            /\ CallsTo("customers") = loc.n
            /\ CallsTo("claims") <= loc.n
            /\ Len(fetches) <= 1 + 2 * loc.n)
    /\ [](\A s \in Slots :
            Started(calls[s]) => Gets(calls[s].sent) <= 2 /\ Posts(calls[s].sent) <= 1)
    /\ (inv.tool \in FanOutTools) ~> Returned

\* Of 31 policies 21 are of the requested type and 20 are enriched; of 11
\* customers 10 are.
C27_Witness ==
    \/ /\ Applied("get_renewals_report.map")
       /\ Len(inv.args.policies) = 31 /\ inv.args.policy_types = <<"auto">>
       /\ Len(result.value) = 20
    \/ /\ Applied("search_customers_advanced.map")
       /\ Len(inv.args.customers) = 11
       /\ Len(result.value) = 10

NextPure ==
    \/ ApplyRiskScore
    \/ ApplyLifetimeValue
    \/ ApplyClaimsDashboard
    \/ ApplyRenewalsReport
    \/ ApplySalesPipeline
    \/ ApplySearch

SpecPure == InitPure /\ [][NextPure]_vars

====
